---- MODULE Spec2Model ----
(***************************************************************************)
(* Model of decaf-ts/ui-decorators: the Field Tree Builder                 *)
(* (RenderingEngine.toFieldDefinition), the Type & Validation Translator   *)
(* (translate, toAttributeValue, formatByType) and the Rendering Engine    *)
(* Registry (register, get, getOrBoot).                                    *)
(*                                                                         *)
(* JavaScript values are encoded as records of one shape, so that any two  *)
(* of them can be compared: k is the typeof-like kind, s the text of a     *)
(* string, n the number (or 0/1 of a boolean), l the elements of an array  *)
(* of strings.                                                             *)
(***************************************************************************)
EXTENDS Integers, Sequences, FiniteSets, TLC

VARIABLES
  ui,          \* UI metadata store: model type -> class and property fragments
  validation,  \* validation metadata store: model type -> property -> list
  shared,      \* whether Metadata.get hands out the stored lists themselves
               \* (TRUE) or copies of them: the library is no part of src
  cache,       \* RenderingEngine.cache: flavour -> engine
  current,     \* RenderingEngine.current
  engines,     \* the engines constructed so far: flavour, and whether the
               \* constructor returned
  caller,      \* the context props and the data of the caller of build
  last,        \* the last call and its outcome
  got,         \* the last call of the registry and its outcome
  attr         \* the last toAttributeValue call and its outcome

vars == <<ui, validation, shared, caller, cache, current, engines, last, got, attr>>

-----------------------------------------------------------------------------
(* Bounds *)

MaxEngines == 3

\* the frames of toFieldDefinition the stack holds before the engine throws
\* RangeError: Maximum call stack size exceeded
StackLimit == 6

-----------------------------------------------------------------------------
(* JavaScript values *)

Undef == [k |-> "undefined", s |-> "", n |-> 0, l |-> <<>>]
Str(x) == [k |-> "string", s |-> x, n |-> 0, l |-> <<>>]
Num(x) == [k |-> "number", s |-> "", n |-> x, l |-> <<>>]
Bool(b) == [k |-> "boolean", s |-> "", n |-> IF b THEN 1 ELSE 0, l |-> <<>>]
Arr(x) == [k |-> "array", s |-> "", n |-> 0, l |-> x]
Obj(x) == [k |-> "object", s |-> x, n |-> 0, l |-> <<>>]
DateVal(x) == [k |-> "date", s |-> x, n |-> 0, l |-> <<>>]

Truthy(v) ==
  ~ \/ v.k = "undefined"
    \/ (v.k = "string" /\ v.s = "")
    \/ (v.k = "number" /\ v.n = 0)
    \/ (v.k = "boolean" /\ v.n = 0)

\* a || b
Or(a, b) == IF Truthy(a) THEN a ELSE b

\* plain objects used as key -> value maps
EmptyMap == [x \in {} |-> Undef]
Get(m, key) == IF key \in DOMAIN m THEN m[key] ELSE Undef
\* Object.assign({}, a, b)
Assign(a, b) ==
  [x \in (DOMAIN a) \cup (DOMAIN b) |-> IF x \in DOMAIN b THEN b[x] ELSE a[x]]
Assign3(a, b, c) == Assign(Assign(a, b), c)
\* the last of four objects merged first, under the others
Assign4LastFirst(a, b, c, d) == Assign(Assign3(d, a, b), c)
Assign4(a, b, c, d) == Assign(Assign3(a, b, c), d)
One(key, v) == [x \in {key} |-> v]

-----------------------------------------------------------------------------
(* Constants of the library *)

UIKeys ==
  [ ELEMENT |-> "element", PROP |-> "prop", CHILD |-> "child",
    UILISTPROP |-> "listprop", HIDDEN |-> "hidden", ORDER |-> "order",
    PAGE |-> "page", UILAYOUTPROP |-> "uilayoutprop",
    TYPE |-> "type", FORMAT |-> "format", REQUIRED |-> "required",
    DATE |-> "date" ]

ValidatableByType == {"email", "url", "date", "password"}

ValidatableByAttribute ==
  { "required", "min", "max", "step", "minlength", "maxlength", "pattern",
    "equals", "different", "lessThan", "lessThanOrEqual", "greaterThan",
    "greaterThanOrEqual" }

HTML5DateFormat == "yyyy-MM-dd"

\* String.prototype.toLowerCase on the names of the reserved models
ToLowerCase(name) ==
  CASE name = "String" -> "string"
    [] name = "Number" -> "number"
    [] name = "BigInt" -> "bigint"
    [] name = "Boolean" -> "boolean"
    [] name = "Date" -> "date"
    [] OTHER -> name

-----------------------------------------------------------------------------
(* Annotation fragments, as the decorators store them *)

NoMeta == [tag |-> Undef, name |-> Undef, hasProps |-> FALSE, props |-> EmptyMap,
           val |-> Undef]

\* uielement that does not write the name of the property into the props
uielementUnnamed(tag, props, propertyKey) ==
  [ key |-> UIKeys.ELEMENT,
    props |-> [NoMeta EXCEPT !.tag = Str(tag), !.hasProps = TRUE, !.props = props] ]

\* uielement(tag, props): {tag, serialize, props: {...props, name: propertyKey}}
uielement(tag, props, propertyKey) ==
  [ key |-> UIKeys.ELEMENT,
    props |-> [NoMeta EXCEPT !.tag = Str(tag), !.hasProps = TRUE,
                 !.props = Assign(props, One("name", Str(propertyKey)))] ]

\* uiprop(): {name: propName || propertyKey, stringify}
uiprop(propertyKey) ==
  [ key |-> UIKeys.PROP, props |-> [NoMeta EXCEPT !.name = Str(propertyKey)] ]

\* uichild(clazz, tag, props): {tag, serialize, props: {...props, name: clazz ||
\* propertyKey, multiple: false}}
uichild(clazz, tag, props, propertyKey) ==
  [ key |-> UIKeys.CHILD,
    props |-> [NoMeta EXCEPT !.tag = Str(tag), !.hasProps = TRUE,
                 !.props = Assign3(props,
                                   One("name", Or(Str(clazz), Str(propertyKey))),
                                   One("multiple", Bool(FALSE)))] ]

\* uilistprop(propName, props): {name: propName || propertyKey, props: props || {}}
uilistprop(propName, props, propertyKey) ==
  [ key |-> UIKeys.UILISTPROP,
    props |-> [NoMeta EXCEPT !.name = Or(Str(propName), Str(propertyKey)),
                 !.hasProps = TRUE, !.props = props] ]

\* hideOn(...operations): the array of operations itself is the metadata
hideOn(operations) ==
  [ key |-> UIKeys.HIDDEN, props |-> [NoMeta EXCEPT !.val = Arr(operations)] ]

\* uiorder(order): the number itself is the metadata
uiorder(order) ==
  [ key |-> UIKeys.ORDER, props |-> [NoMeta EXCEPT !.val = Num(order)] ]

\* uipageprop(page): the page number itself is the metadata
uipageprop(page) ==
  [ key |-> UIKeys.PAGE, props |-> [NoMeta EXCEPT !.val = Num(page)] ]

\* uilayoutprop(col, row): {name: propertyKey, props: {row, col}}
uilayoutprop(col, row, propertyKey) ==
  [ key |-> UIKeys.UILAYOUTPROP,
    props |-> [NoMeta EXCEPT !.name = Str(propertyKey), !.hasProps = TRUE,
                 !.props = Assign(One("row", Num(row)), One("col", Num(col)))] ]

\* a class-level fragment: the keys it has (has) and their values
NoItem == [tag |-> Undef, hasProps |-> FALSE, props |-> EmptyMap]
NoFragment ==
  [ has |-> {}, tag |-> Undef, hasProps |-> FALSE, props |-> EmptyMap,
    item |-> NoItem, handlers |-> Undef ]

\* uimodel(tag, props): {tag: tag || original.name, props}
uimodel(tag, hasProps, props, original) ==
  [ NoFragment EXCEPT !.has = {"tag", "props"}, !.tag = Or(Str(tag), Str(original)),
      !.hasProps = hasProps, !.props = props ]

\* uilistmodel(name, props): {item: {tag: name || original.name, props}}
uilistmodel(name, hasProps, props, original) ==
  [ NoFragment EXCEPT !.has = {"item"},
      !.item = [tag |-> Or(Str(name), Str(original)), hasProps |-> hasProps,
                props |-> props] ]

\* uihandlers(props): {handlers: props}
uihandlers(name) ==
  [ NoFragment EXCEPT !.has = {"handlers"}, !.handlers = Obj(name) ]

\* a validation fragment {key, props}
Validation(key, props) == [key |-> key, props |-> props]
\* the implicit base-type descriptor, first of every property's list
TypeDescriptor(name) == Validation("type", One("name", Str(name)))
Constraint(key, v) ==
  Validation(key, Assign(One("message", Str("msg")), One(key, v)))

-----------------------------------------------------------------------------
(* Type & Validation Translator *)

\* a translation back that knows checkbox-like categories and sends every other
\* category to string
translateTotal(key, toView) ==
  IF toView
  THEN CASE key = "string" -> "text"
         [] key \in {"number", "bigint"} -> "number"
         [] key = "boolean" -> "checkbox"
         [] key = "date" -> "date"
         [] OTHER -> key
  ELSE CASE key \in {"checkbox", "radio"} -> "boolean"
         [] key = "number" -> "number"
         [] key \in {"date", "datetime-local", "time"} -> "date"
         [] OTHER -> "string"

\* RenderingEngine.translate(key, toView); HTML5InputTypes has no SELECT entry,
\* so that the case written for it matches no category
translate(key, toView) ==
  IF toView
  THEN CASE key = "string" -> "text"
         [] key \in {"number", "bigint"} -> "number"
         [] key = "boolean" -> "checkbox"
         [] key = "date" -> "date"
         [] OTHER -> key
  ELSE CASE key \in { "text", "email", "color", "password", "tel", "url",
                      "search", "hidden", "textarea", "radio" } -> "string"
         [] key = "number" -> "number"
         [] key = "checkbox" -> "boolean"
         [] key \in {"date", "datetime-local", "time"} -> "date"
         [] OTHER -> key

isValidatableByType(key) == key \in ValidatableByType

\* a test that lets every key through
isValidatableByAnything(key) == TRUE

isValidatableByAttribute(key) == key \in ValidatableByAttribute

\* toAttributeValue that looks every key up in the metadata, required too
toAttributeValueLookup(key, value) ==
  IF key \notin ValidatableByAttribute
  THEN [err |-> "InvalidAttributeKey", value |-> Undef]
  ELSE [err |-> "none", value |-> Get(value, key)]

\* RenderingEngine.toAttributeValue(key, value): [err, value]
toAttributeValue(key, value) ==
  IF key \notin ValidatableByAttribute
  THEN [err |-> "InvalidAttributeKey", value |-> Undef]
  ELSE [err |-> "none",
        value |-> IF key = UIKeys.REQUIRED THEN Bool(TRUE) ELSE Get(value, key)]

\* formatDate(new Date(value), format) of decorator-validation: a text fixed by
\* the date and the format
formatDate(value, format) == Str(format \o "|" \o value.s)

\* formatByType without the default of format
formatByTypeAsGiven(type, value, format) ==
  IF type = Str(UIKeys.DATE)
  THEN IF ~Truthy(value) THEN Str("") ELSE formatDate(value, format.s)
  ELSE value

\* escapeHtml(value): `${value}`.replace(/[&<>]/g, ...) with & to &amp;, < to
\* &lt; and > to &gt;, on the texts the callers hold; a falsy value is
\* returned as it is
escapeHtml(value) ==
  IF ~Truthy(value) THEN value
  ELSE Str(CASE value.s = "a<b" -> "a&lt;b"
             [] value.s = "a&b" -> "a&amp;b"
             [] value.s = "a>b" -> "a&gt;b"
             [] OTHER -> value.s)

\* formatByType that escapes the strings it passes through
formatByTypeEscaping(type, value, format) ==
  IF type = Str(UIKeys.DATE)
  THEN IF ~Truthy(value) THEN Str("")
       ELSE formatDate(value, Or(format, Str(HTML5DateFormat)).s)
  ELSE IF value.k = "string" THEN escapeHtml(value) ELSE value

\* formatByType(type, value, format)
formatByType(type, value, format) ==
  IF type = Str(UIKeys.DATE)
  THEN IF ~Truthy(value) THEN Str("")
       ELSE formatDate(value, Or(format, Str(HTML5DateFormat)).s)
  ELSE value

-----------------------------------------------------------------------------
(* Metadata Store accessors (Model.ui*Of) *)

\* Model.uiPropertiesOf
uiPropertiesOf(U, type) == U[type].props

\* Model.uiDecorationOf(model, prop): the fragments of a property, in the order
\* they were attached
uiDecorationOf(U, type, prop) == U[type].decs[prop]

DecKeys(decs) == {decs[i].key : i \in DOMAIN decs}

\* uiTypeOf without its test of keys.length > 1: the first placement is taken
uiTypeOfFirst(U, type, prop) ==
  LET meta == uiDecorationOf(U, type, prop)
      keys == SelectSeq(meta, LAMBDA d :
                d.key \in {UIKeys.PROP, UIKeys.ELEMENT, UIKeys.CHILD})
  IN IF Len(meta) = 0 THEN "NoMetadata"
     ELSE IF Len(keys) = 0 THEN "NoUITypeMetadata"
     ELSE "none"

\* uiTypeOf that takes a list-prop for a placement too
uiTypeOfWithList(U, type, prop) ==
  LET meta == uiDecorationOf(U, type, prop)
      keys == SelectSeq(meta, LAMBDA d :
                d.key \in {UIKeys.PROP, UIKeys.ELEMENT, UIKeys.CHILD, UIKeys.UILISTPROP})
  IN IF Len(meta) = 0 THEN "NoMetadata"
     ELSE IF Len(keys) = 0 THEN "NoUITypeMetadata"
     ELSE IF Len(keys) > 1 THEN "ConflictingPlacement"
     ELSE "none"

\* Model.uiTypeOf: the error it throws, "none" when it returns the placement
uiTypeOf(U, type, prop) ==
  LET meta == uiDecorationOf(U, type, prop)
      keys == SelectSeq(meta, LAMBDA d :
                d.key \in {UIKeys.PROP, UIKeys.ELEMENT, UIKeys.CHILD})
  IN IF Len(meta) = 0 THEN "NoMetadata"
     ELSE IF Len(keys) = 0 THEN "NoUITypeMetadata"
     ELSE IF Len(keys) > 1 THEN "ConflictingPlacement"
     ELSE "none"

\* every property taken for a model
isPropertyAny(U, type, prop) == TRUE

\* Model.isPropertyModel(model, prop): whether the declared type of the property
\* is a model type
isPropertyModel(U, type, prop) == U[type].isModel[prop]

\* uiIsHidden that finds no property hidden
uiIsHiddenNever(U, type, prop) == FALSE

\* Model.uiIsHidden
uiIsHidden(U, type, prop) == UIKeys.HIDDEN \in DecKeys(uiDecorationOf(U, type, prop))

\* Model.uiElementOf, as a boolean
uiElementOf(U, type, prop) == UIKeys.ELEMENT \in DecKeys(uiDecorationOf(U, type, prop))

\* getClassDecoratorsMetadata without its filter(Boolean): the fragments that do
\* not exist stay in the answer, which is then never empty
getClassDecoratorsMetadataUnfiltered(U, type) ==
  LET all == <<"uimodel", "uilistmodel", "handlers", "uilayout">>
  IN [i \in 1..Len(all) |->
        IF all[i] \in DOMAIN U[type].cls THEN U[type].cls[all[i]] ELSE NoFragment]

\* RenderingEngine.getClassDecoratorsMetadata: uimodel, list model, handlers and
\* layout fragments, those that exist, in this order
getClassDecoratorsMetadata(U, type) ==
  LET all == <<"uimodel", "uilistmodel", "handlers", "uilayout">>
      present == SelectSeq(all, LAMBDA c : c \in DOMAIN U[type].cls)
  IN [i \in 1..Len(present) |-> U[type].cls[present[i]]]

-----------------------------------------------------------------------------
(* Field Tree Builder: RenderingEngine.toFieldDefinition *)

\* the model itself where its submodel is asked for
SubmodelSelf(model, key) == model

\* a model instance: its type, its scalar property values and its nested models
NoInstance == [type |-> "undefined", vals |-> EmptyMap, sub |-> <<>>]
Submodel(model, key) ==
  IF key \in DOMAIN model.sub THEN model.sub[key] ELSE NoInstance

\* no instance is made: the value of the property, undefined, is used
NotConstructed(type) == NoInstance

\* new Clazz(): every property undefined
NewInstance(type) == [type |-> type, vals |-> EmptyMap, sub |-> <<>>]

\* the childProps variable of toFieldDefinition: item?.props || {} at first
\* (own), with the metadata of prop placements added (metas), and replaced by
\* {tag, props} by a list-prop placement (isItem)
NoChildProps ==
  [isItem |-> FALSE, tag |-> Undef, props |-> EmptyMap, own |-> EmptyMap,
   metas |-> <<>>]

\* a FieldDefinition: keys tells an element node {tag, props} from a model node
\* {tag, item, props, children}
NoNode ==
  [keys |-> "none", tag |-> Undef, props |-> EmptyMap, hasChildren |-> FALSE,
   children |-> <<>>, item |-> NoChildProps, rendererId |-> FALSE]

\* trace is a record of the run for the properties below, no state of the
\* program: the calls of toFieldDefinition entered and the properties begun
Fail(err, vs, trace) == [err |-> err, tree |-> NoNode, vs |-> vs, trace |-> trace]

\* the calls of toFieldDefinition that have not returned
Frames(trace) ==
  Cardinality({i \in DOMAIN trace : trace[i][1] = "call"})
    - Cardinality({i \in DOMAIN trace : trace[i][1] = "return"})

\* getPath that leaves the parent out
getPathOfProp(parent, prop) == prop

\* const getPath = (parent, prop) => parent ? [parent, prop].join(".") : prop
getPath(parent, prop) ==
  IF Truthy(parent) THEN Str(parent.s \o "." \o prop.s) ELSE prop

\* a comparator that puts no fragment before another
DecCompareNone(a) == 1

\* the comparator of the sort of a property's fragments: it looks at its first
\* argument only
DecCompare(a) == IF a.key \in {UIKeys.ELEMENT, UIKeys.CHILD} THEN -1 ELSE 1

Reverse(q) == [i \in 1..Len(q) |-> q[Len(q) + 1 - i]]

\* length of the initial run Array.prototype.sort looks for: compare(q[i], q[i-1]),
\* a run that starts descending goes on while the order is < 0
RECURSIVE RunLength(_, _, _)
RunLength(q, i, descending) ==
  IF i > Len(q) THEN Len(q)
  ELSE IF descending = (DecCompare(q[i]) < 0) THEN RunLength(q, i + 1, descending)
  ELSE i - 1

\* binary insertion of q[i..] into the sorted prefix: the pivot is the first
\* argument of every comparison, so it goes to the front when the comparator
\* answers < 0 and stays behind the prefix otherwise
RECURSIVE BinaryInsertion(_, _)
BinaryInsertion(q, i) ==
  IF i > Len(q) THEN q
  ELSE IF DecCompare(q[i]) < 0
       THEN BinaryInsertion(<<q[i]>> \o SubSeq(q, 1, i - 1) \o SubSeq(q, i + 1, Len(q)),
                            i + 1)
       ELSE BinaryInsertion(q, i + 1)

\* the fragments left in the order they were attached
Unsorted(q) == q

\* Object.entries(decs).map(...).sort((a) => ...): the sort of arrays shorter
\* than 64 entries, an initial run and binary insertion of the rest
SortDecs(q) ==
  IF Len(q) < 2 THEN q
  ELSE LET descending == DecCompare(q[2]) < 0
           run == RunLength(q, 3, descending)
           made == IF descending
                   THEN Reverse(SubSeq(q, 1, run)) \o SubSeq(q, run + 1, Len(q))
                   ELSE q
       IN BinaryInsertion(made, run + 1)

\* Object.assign({}, ...classDecorators, inheritProps ? inheritProps : {})
RECURSIVE MergeFragments(_, _, _)
MergeFragments(cds, i, acc) ==
  IF i > Len(cds) THEN acc
  ELSE LET f == cds[i]
       IN MergeFragments(cds, i + 1,
            [ has |-> acc.has \cup f.has,
              tag |-> IF "tag" \in f.has THEN f.tag ELSE acc.tag,
              hasProps |-> IF "props" \in f.has THEN f.hasProps ELSE acc.hasProps,
              props |-> IF "props" \in f.has THEN f.props ELSE acc.props,
              item |-> IF "item" \in f.has THEN f.item ELSE acc.item,
              handlers |-> IF "handlers" \in f.has THEN f.handlers ELSE acc.handlers ])

\* inheritProps is the metadata of a child placement: {tag, serialize, props}
NoInherit == [present |-> FALSE, meta |-> NoMeta]
InheritNothing(inherit) == NoFragment
InheritFragment(inherit) ==
  IF inherit.present
  THEN [NoFragment EXCEPT !.has = {"tag", "props"}, !.tag = inherit.meta.tag,
          !.hasProps = inherit.meta.hasProps, !.props = inherit.meta.props]
  ELSE NoFragment

ClassDecorator(cds, inherit) ==
  MergeFragments(Append(cds, InheritFragment(inherit)), 1, NoFragment)

\* the loop over the validation fragments left after the shift: attributes and
\* type markers are written into the props of the node, any other key is
\* skipped; [err, props]
RECURSIVE ApplyValidation(_, _, _)
ApplyValidation(validationDecs, i, props) ==
  IF i > Len(validationDecs) THEN [err |-> "none", props |-> props]
  ELSE LET dec == validationDecs[i]
           a == toAttributeValue(dec.key, dec.props)
       IN IF isValidatableByAttribute(dec.key)
          THEN IF a.err # "none" THEN [err |-> a.err, props |-> props]
               ELSE ApplyValidation(validationDecs, i + 1,
                      Assign(props, One(translate(dec.key, TRUE), a.value)))
          ELSE IF isValidatableByType(dec.key)
          THEN ApplyValidation(validationDecs, i + 1,
                 Assign3(props,
                         IF dec.key = UIKeys.DATE
                         THEN One(UIKeys.FORMAT,
                                  Or(Get(dec.props, "format"), Str(HTML5DateFormat)))
                         ELSE EmptyMap,
                         One(UIKeys.TYPE, Str(dec.key))))
          ELSE ApplyValidation(validationDecs, i + 1, props)

\* the type inferred from the base type whatever the props hold
InferTypeAlways(validated, basicType) ==
  Assign(validated, One(UIKeys.TYPE, Str(translate(ToLowerCase(basicType.s), TRUE))))

\* if (!childDefinition.props[UIKeys.TYPE]) props.type = translate(basicType
\* .toLowerCase(), true)
InferType(validated, basicType) ==
  IF Truthy(Get(validated, UIKeys.TYPE)) THEN validated
  ELSE Assign(validated,
              One(UIKeys.TYPE, Str(translate(ToLowerCase(basicType.s), TRUE))))

\* a value that is written only when the property has one
SetValueIfDefined(typed, value) ==
  IF value = Undef THEN typed
  ELSE Assign(typed, One("value", formatByType(Get(typed, UIKeys.TYPE), value,
                                               Get(typed, UIKeys.FORMAT))))

\* childDefinition.props.value = formatByType(props.type, model[key], props.format)
SetValue(typed, value) ==
  Assign(typed, One("value", formatByType(Get(typed, UIKeys.TYPE), value,
                                          Get(typed, UIKeys.FORMAT))))

\* the childDefinition of an element once its validation fragments are applied:
\* [err, node, list]; without a type and without a base type name,
\* basicType.toLowerCase() is a TypeError
TypedNode(applied, basicType, value, tag, validationDecs) ==
  IF applied.err # "none"
  THEN [err |-> applied.err, node |-> NoNode, list |-> validationDecs]
  ELSE IF ~Truthy(Get(applied.props, UIKeys.TYPE)) /\ basicType.k # "string"
  THEN [err |-> "TypeError", node |-> NoNode, list |-> validationDecs]
  ELSE [err |-> "none",
        node |-> [NoNode EXCEPT !.keys = "element", !.tag = tag,
                    !.props = SetValue(InferType(applied.props, basicType), value)],
        list |-> validationDecs]

\* validationDecs.shift() and what follows it, for the head typeDec and the
\* rest validationDecs of a list
ShiftedNode(typeDec, validationDecs, props, value, tag) ==
  TypedNode(ApplyValidation(validationDecs, 1, props), Get(typeDec.props, "name"),
            value, tag, validationDecs)

\* case UIKeys.ELEMENT, once props are merged: [err, node, list], list being what
\* validationDecs.shift() leaves of the property's validation list in the store
ElementNode(model, key, uiProps, props, cp, tag, stored) ==
  ShiftedNode(IF Len(stored) = 0 THEN Validation("", EmptyMap) ELSE Head(stored),
              IF Len(stored) = 0 THEN stored ELSE Tail(stored),
              props, Get(model.vals, key),
              Or(Or(Or(uiProps.tag, IF cp.isItem THEN cp.tag ELSE Get(cp.own, "tag")),
                    tag),
                 Str("")))

\* children.find((c) => c.props?.name === key || ([UILAYOUTPROP, PAGE]
\* .includes(dec.key) && c.props?.childOf === key)): its index, 0 when there
\* is none
FindChild(children, key, dec) ==
  LET hits == {i \in DOMAIN children :
                 \/ Get(children[i].props, "name") = Str(key)
                 \/ /\ dec.key \in {UIKeys.UILAYOUTPROP, UIKeys.PAGE}
                    /\ Get(children[i].props, "childOf") = Str(key)}
  IN IF hits = {} THEN 0 ELSE CHOOSE i \in hits : \A j \in hits : i <= j

\* the modifier that is dropped when it is met
MergeNothing(props, dec) == props

\* child.props after a modifier is merged into it: a layout modifier lays its
\* own props under those of the node ({row, col, props} = dec.props, where row
\* and col are undefined), any other is written under its key
MergeModifier(props, dec) ==
  IF dec.key # UIKeys.UILAYOUTPROP
  THEN Assign(props, One(dec.key, dec.props.val))
  ELSE Assign(IF dec.props.hasProps THEN dec.props.props ELSE EmptyMap, props)

\* a nested call whose error is caught: the child is left out and the walk
\* goes on
PushChildCaught(S, childDefinition) ==
  IF childDefinition.err # "none"
  THEN [S EXCEPT !.vs = childDefinition.vs, !.trace = childDefinition.trace]
  ELSE [S EXCEPT !.hasChildren = TRUE,
          !.children = Append(S.children, childDefinition.tree),
          !.vs = childDefinition.vs, !.trace = childDefinition.trace]

\* children.push(childDefinition) for the outcome of the nested call, whose
\* error is the error of this call
PushChild(S, childDefinition) ==
  IF childDefinition.err # "none"
  THEN [S EXCEPT !.err = childDefinition.err, !.vs = childDefinition.vs,
          !.trace = childDefinition.trace]
  ELSE [S EXCEPT !.hasChildren = TRUE,
          !.children = Append(S.children, childDefinition.tree),
          !.vs = childDefinition.vs, !.trace = childDefinition.trace]

\* children.push(childDefinition) for the element e of the property key; the
\* shift has acted on the store whether or not the rest of the case threw
PushElement(S, type, key, e) ==
  IF e.err # "none"
  THEN [S EXCEPT !.vs[type][key] = IF shared THEN e.list ELSE @, !.err = e.err]
  ELSE [S EXCEPT !.vs[type][key] = IF shared THEN e.list ELSE @,
          !.hasChildren = TRUE, !.children = Append(S.children, e.node)]

\* a prop placement that makes a child node of the property
PushProp(S, key, dec) ==
  [S EXCEPT !.hasChildren = TRUE,
     !.children = Append(S.children,
                    [NoNode EXCEPT !.keys = "element", !.tag = Str(""),
                       !.props = One("name", Str(key))])]

\* case UIKeys.PROP: childProps[key] = dec.props as UIPropMetadata
RecordProp(S, key, dec) ==
  [S EXCEPT !.cp.metas = Assign(S.cp.metas, One(key, dec.props))]

RECURSIVE toFieldDefinition(_, _, _, _, _, _, _)
RECURSIVE ForEachDec(_, _, _, _, _, _, _, _)
RECURSIVE ForEachKey(_, _, _, _, _, _, _)

\* sorted.forEach((dec) => { switch (dec.key) ... }) for the property key, from
\* the i-th fragment on; S is the state of the call: children, childProps,
\* mapper and the validation store
ForEachDec(U, model, key, sorted, i, globalProps, classDecorator, S) ==
  IF i > Len(sorted) \/ S.err # "none" THEN S
  ELSE
    LET dec == sorted[i]
        next(T) == ForEachDec(U, model, key, sorted, i + 1, globalProps, classDecorator, T)
    IN
    CASE dec.key = UIKeys.PROP ->
           next(RecordProp(S, key, dec))
      [] dec.key = UIKeys.CHILD ->
           IF ~isPropertyModel(U, model.type, key)
           THEN [S EXCEPT !.err = "ChildNotAModel"]
           ELSE
             LET submodel == Submodel(model, key)
                 constructable == submodel.type # "undefined"
                 clazzName == Get(dec.props.props, "name")
                 Clazz == IF constructable THEN Undef ELSE Obj(clazzName.s)
                 childrenGlobalProps ==
                   Assign3(globalProps, One("model", Clazz),
                           One("childOf", getPath(Get(globalProps, "childOf"), Str(key))))
             IN IF ~constructable /\ clazzName.s \notin DOMAIN U
                THEN [S EXCEPT !.err = "TypeError"]
                ELSE next(PushChild(S,
                       toFieldDefinition(U,
                         IF constructable THEN submodel ELSE NewInstance(clazzName.s),
                         childrenGlobalProps, [present |-> TRUE, meta |-> dec.props],
                         FALSE, S.vs, S.trace)))
      [] dec.key = UIKeys.UILISTPROP ->
           LET mapper == IF Truthy(dec.props.name)
                         THEN Assign(S.mapper, One(dec.props.name.s, Str(key)))
                         ELSE S.mapper
               item == classDecorator.item
               props == Assign3(IF item.hasProps THEN item.props ELSE EmptyMap,
                                IF dec.props.hasProps THEN dec.props.props ELSE EmptyMap,
                                globalProps)
           IN next([S EXCEPT !.mapper = mapper,
                      !.cp = [NoChildProps EXCEPT !.isItem = TRUE,
                                !.tag = Or(Or(item.tag, Get(props, "render")), Str("")),
                                !.props = Assign3(IF S.cp.isItem THEN S.cp.props
                                                  ELSE EmptyMap,
                                                  One("mapper", Obj("mapper")), props)]])
      [] dec.key \in {UIKeys.HIDDEN, UIKeys.PAGE, UIKeys.ORDER, UIKeys.UILAYOUTPROP,
                      UIKeys.ELEMENT} ->
           LET uiProps == dec.props
               own == IF uiProps.hasProps THEN uiProps.props ELSE EmptyMap
               props ==
                 Assign4(IF S.cp.isItem THEN S.cp.props ELSE EmptyMap,
                         own,
                         IF Truthy(Get(own, "name"))
                         THEN Assign(One("path", getPath(Get(globalProps, "childOf"),
                                                         Get(own, "name"))),
                                     One("childOf", Undef))
                         ELSE EmptyMap,
                         globalProps)
           IN IF dec.key = UIKeys.ELEMENT
              THEN IF key \notin DOMAIN S.vs[model.type]
                   THEN [S EXCEPT !.err = "TypeError"]
                   ELSE next(PushElement(S, model.type, key,
                          ElementNode(model, key, uiProps, props, S.cp,
                                      classDecorator.tag, S.vs[model.type][key])))
              ELSE LET c == FindChild(S.children, key, dec)
                   IN IF c = 0 THEN next([S EXCEPT !.hasChildren = TRUE])
                      ELSE next([S EXCEPT !.hasChildren = TRUE,
                                   !.children[c].props =
                                     MergeModifier(S.children[c].props, dec)])
      [] OTHER -> [S EXCEPT !.err = "InvalidKey"]

\* for (const key of uiDecorators), from the i-th property on
ForEachKey(U, model, uiDecorators, i, globalProps, classDecorator, S) ==
  IF i > Len(uiDecorators) \/ S.err # "none" THEN S
  ELSE
    LET key == uiDecorators[i]
        decs == uiDecorationOf(U, model.type, key)
        type == uiTypeOf(U, model.type, key)
        B == [S EXCEPT !.trace = Append(S.trace, <<"key", model.type, key>>)]
    IN IF type # "none" THEN [B EXCEPT !.err = type]
       ELSE IF uiIsHidden(U, model.type, key) /\ ~uiElementOf(U, model.type, key)
       THEN [B EXCEPT !.err = "HiddenWithoutElement"]
       ELSE ForEachKey(U, model, uiDecorators, i + 1, globalProps, classDecorator,
              ForEachDec(U, model, key, SortDecs(decs), 1, globalProps,
                         classDecorator, B))

\* a?.props?.order ?? 0
OrderOf(c) == LET o == Get(c.props, UIKeys.ORDER) IN IF o.k = "number" THEN o.n ELSE 0

\* children left in the order they were pushed
Unordered(children) == children

\* children.sort((a, b) => (a.props.order ?? 0) - (b.props.order ?? 0)): the
\* sort is stable, so a child goes behind the sorted ones that are not greater
RECURSIVE SortChildren(_)
SortChildren(children) ==
  IF Len(children) < 2 THEN children
  ELSE LET n == Len(children)
           x == children[n]
           sorted == SortChildren(SubSeq(children, 1, n - 1))
           before == SelectSeq(sorted, LAMBDA c : OrderOf(c) <= OrderOf(x))
           after == SelectSeq(sorted, LAMBDA c : OrderOf(c) > OrderOf(x))
       IN before \o <<x>> \o after

\* the filter on the hidden operations: FALSE for a child that is dropped
Visible(c, operation) ==
  LET hiddenOn == Get(c.props, UIKeys.HIDDEN)
  IN ~ /\ hiddenOn.k = "array"
       /\ operation.k = "string"
       /\ \E i \in DOMAIN hiddenOn.l : hiddenOn.l[i] = operation.s

\* the result with a rendererId whatever generateId is
ResultWithId(S, tag, props, generateId) ==
  IF S.err # "none" THEN Fail(S.err, S.vs, S.trace)
  ELSE [ err |-> "none",
         tree |-> [ keys |-> "model", tag |-> tag,
                    props |-> props, hasChildren |-> S.hasChildren,
                    children |-> SelectSeq(SortChildren(S.children),
                                   LAMBDA c : Visible(c, Get(props, "operation"))),
                    item |-> S.cp, rendererId |-> TRUE ],
         vs |-> S.vs, trace |-> Append(S.trace, <<"return", "", "">>) ]

\* the result of toFieldDefinition once the properties are walked: children
\* sorted and filtered, or the error the walk met
Result(S, tag, props, generateId) ==
  IF S.err # "none" THEN Fail(S.err, S.vs, S.trace)
  ELSE [ err |-> "none",
         tree |-> [ keys |-> "model", tag |-> tag,
                    props |-> props, hasChildren |-> S.hasChildren,
                    children |-> SelectSeq(SortChildren(S.children),
                                   LAMBDA c : Visible(c, Get(props, "operation"))),
                    item |-> S.cp, rendererId |-> generateId ],
         vs |-> S.vs, trace |-> Append(S.trace, <<"return", "", "">>) ]

\* the body of toFieldDefinition once classDecorator is merged
WalkProperties(U, model, globalProps, classDecorator, generateId, vs, entered) ==
  Result(ForEachKey(U, model, uiPropertiesOf(U, model.type), 1, globalProps,
           classDecorator,
           [ err |-> "none", hasChildren |-> FALSE, children |-> <<>>,
             cp |-> [NoChildProps EXCEPT
                       !.own = IF classDecorator.item.hasProps
                               THEN classDecorator.item.props ELSE EmptyMap],
             mapper |-> EmptyMap, vs |-> vs, trace |-> entered ]),
         classDecorator.tag,
         Assign3(IF classDecorator.hasProps THEN classDecorator.props ELSE EmptyMap,
                 globalProps,
                 One("handlers", Or(classDecorator.handlers, Obj("{}")))),
         generateId)

\* toFieldDefinition(model, globalProps, generateId): inheritProps is the entry
\* of that name of globalProps, vs the validation store the call reads and
\* shifts; the outcome is the error thrown or the tree returned, and the store.
\* A model that is undefined has no constructor to read: TypeError
toFieldDefinition(U, model, globalProps, inheritProps, generateId, vs, trace) ==
  LET entered == Append(trace, <<"call", model.type,
                                 IF inheritProps.present THEN "inheritProps" ELSE "">>)
  IN IF Frames(trace) >= StackLimit THEN Fail("RangeError", vs, trace)
     ELSE IF model.type \notin DOMAIN U THEN Fail("TypeError", vs, entered)
     ELSE IF Len(getClassDecoratorsMetadata(U, model.type)) = 0
     THEN Fail("MissingUIDefinition", vs, entered)
     ELSE WalkProperties(U, model, globalProps,
            ClassDecorator(getClassDecoratorsMetadata(U, model.type), inheritProps),
            generateId, vs, entered)

-----------------------------------------------------------------------------
(* The annotated model types the builder is run on.  Three types nested as in
   tests/unit/models.ts: ParentModel {name, email, neighbor: NeighborModel},
   NeighborModel {name, address: AddressModel}, AddressModel {street}.  The
   annotations of name and email of ParentModel, of name of NeighborModel and
   of street of AddressModel, and the class fragments, vary. *)

Types == {"ParentModel", "NeighborModel", "AddressModel"}

Operation(o) == One("operation", Str(o))

Element(p, props) ==
  uielement("decaf-crud-field", Assign(One("label", Str("label")), props), p)

Text == <<TypeDescriptor("String"), Constraint("minlength", Num(5))>>

\* the annotations of one property: its UI fragments in the order they were
\* attached, whether its declared type is a model (Model.isPropertyModel), and
\* its validation list
Shape(id, p) ==
  CASE id = "element" ->
         [decs |-> <<Element(p, EmptyMap)>>, isModel |-> FALSE, vals |-> Text]
    [] id = "number" ->
         [decs |-> <<Element(p, EmptyMap)>>, isModel |-> FALSE,
          vals |-> <<TypeDescriptor("Number")>>]
    [] id = "boolean" ->
         [decs |-> <<Element(p, EmptyMap)>>, isModel |-> FALSE,
          vals |-> <<TypeDescriptor("Boolean"), Constraint("required", Bool(TRUE))>>]
    [] id = "email" ->
         [decs |-> <<Element(p, EmptyMap)>>, isModel |-> FALSE,
          vals |-> <<TypeDescriptor("String"), Constraint("required", Bool(TRUE)),
                     Constraint("email", Str("regexp"))>>]
    [] id = "date" ->
         [decs |-> <<Element(p, EmptyMap)>>, isModel |-> FALSE,
          vals |-> <<TypeDescriptor("Date"), Constraint("required", Bool(TRUE))>>]
    [] id = "dateFormat" ->
         [decs |-> <<Element(p, EmptyMap)>>, isModel |-> FALSE,
          vals |-> <<TypeDescriptor("Date"),
                     Validation("date", One("format", Str("yyyy/MM/dd")))>>]
    [] id = "dateNoFormat" ->
         [decs |-> <<Element(p, EmptyMap)>>, isModel |-> FALSE,
          vals |-> <<TypeDescriptor("Date"), Validation("date", EmptyMap)>>]
    [] id = "dateStaticType" ->
         [decs |-> <<Element(p, One("type", Str("textarea")))>>, isModel |-> FALSE,
          vals |-> <<TypeDescriptor("Date")>>]
    [] id = "dateStaticFormat" ->
         [decs |-> <<Element(p, One("format", Str("dd/MM")))>>, isModel |-> FALSE,
          vals |-> <<TypeDescriptor("Date")>>]
    [] id = "bogus" ->
         [decs |-> <<Element(p, EmptyMap)>>, isModel |-> FALSE,
          vals |-> <<TypeDescriptor("String"), Constraint("bogusKey", Num(1)),
                     Constraint("max", Num(9))>>]
    [] id = "elementHidden" ->
         [decs |-> <<Element(p, EmptyMap), hideOn(<<"update">>)>>, isModel |-> FALSE,
          vals |-> Text]
    [] id = "hiddenElement" ->
         [decs |-> <<hideOn(<<"create", "update">>), Element(p, EmptyMap)>>,
          isModel |-> FALSE, vals |-> Text]
    [] id = "hiddenOrderElement" ->
         [decs |-> <<hideOn(<<"create">>), uiorder(-1), Element(p, EmptyMap)>>,
          isModel |-> FALSE, vals |-> Text]
    [] id = "modifiersElement" ->
         [decs |-> <<uilayoutprop(2, 3, p), uipageprop(2), hideOn(<<"create">>),
                     uiorder(-1), Element(p, EmptyMap)>>,
          isModel |-> FALSE, vals |-> Text]
    [] id = "elementModifiers" ->
         [decs |-> <<Element(p, EmptyMap), uiorder(2), uilayoutprop(1, 1, p),
                     hideOn(<<"read">>), uipageprop(3)>>,
          isModel |-> FALSE, vals |-> Text]
    [] id = "elementOrder" ->
         [decs |-> <<Element(p, EmptyMap), uiorder(2)>>, isModel |-> FALSE,
          vals |-> Text]
    [] id = "hiddenNever" ->
         [decs |-> <<Element(p, EmptyMap), hideOn(<<>>)>>, isModel |-> FALSE,
          vals |-> Text]
    [] id = "prop" ->
         [decs |-> <<uiprop(p)>>, isModel |-> FALSE, vals |-> Text]
    [] id = "listElement" ->
         [decs |-> <<uilistprop("propName", One("render", Str("item-tag")), p),
                     Element(p, EmptyMap)>>,
          isModel |-> FALSE, vals |-> Text]
    [] id = "elementProp" ->
         [decs |-> <<uiprop(p), Element(p, EmptyMap)>>, isModel |-> FALSE,
          vals |-> Text]
    [] id = "propChild" ->
         [decs |-> <<uiprop(p), uichild("AddressModel", "fieldset", EmptyMap, p)>>,
          isModel |-> TRUE, vals |-> <<TypeDescriptor("AddressModel")>>]
    [] id = "elementChild" ->
         [decs |-> <<Element(p, EmptyMap),
                     uichild("AddressModel", "fieldset", EmptyMap, p)>>,
          isModel |-> TRUE, vals |-> <<TypeDescriptor("AddressModel")>>]
    [] id = "allThree" ->
         [decs |-> <<uiprop(p), Element(p, EmptyMap),
                     uichild("AddressModel", "fieldset", EmptyMap, p)>>,
          isModel |-> FALSE, vals |-> Text]
    [] id = "listElementProp" ->
         [decs |-> <<uilistprop("propName", EmptyMap, p), uiprop(p),
                     Element(p, EmptyMap)>>,
          isModel |-> FALSE, vals |-> Text]
    [] id = "hiddenOnly" ->
         [decs |-> <<hideOn(<<"create">>)>>, isModel |-> FALSE, vals |-> Text]
    [] id = "hiddenChild" ->
         [decs |-> <<hideOn(<<"create">>),
                     uichild("AddressModel", "fieldset", EmptyMap, p)>>,
          isModel |-> TRUE, vals |-> <<TypeDescriptor("AddressModel")>>]
    [] id = "listOnly" ->
         [decs |-> <<uilistprop("", EmptyMap, p)>>, isModel |-> FALSE, vals |-> Text]
    [] id = "hiddenProp" ->
         [decs |-> <<uiprop(p), hideOn(<<"create">>)>>, isModel |-> FALSE,
          vals |-> Text]
    [] id = "childNotModel" ->
         [decs |-> <<uichild(p, "component-tag", EmptyMap, p)>>, isModel |-> FALSE,
          vals |-> <<TypeDescriptor("String"), Constraint("required", Bool(TRUE))>>]
    [] id = "childAddress" ->
         [decs |-> <<uichild("AddressModel", "fieldset-address-component",
                             EmptyMap, p)>>,
          isModel |-> TRUE, vals |-> <<TypeDescriptor("AddressModel")>>]
    [] id = "childParent" ->
         [decs |-> <<uichild("ParentModel", "fieldset-parent-component",
                             EmptyMap, p)>>,
          isModel |-> TRUE, vals |-> <<TypeDescriptor("ParentModel")>>]
    [] id = "childNeighbor" ->
         [decs |-> <<uichild("NeighborModel", "fieldset-neighbor-component",
                             EmptyMap, p)>>,
          isModel |-> TRUE, vals |-> <<TypeDescriptor("NeighborModel")>>]

FirstShapes ==
  { "element", "number", "email", "date", "dateFormat", "dateNoFormat",
    "dateStaticType", "dateStaticFormat", "bogus", "elementHidden", "hiddenElement",
    "hiddenOrderElement", "elementOrder", "hiddenNever", "prop", "listElement",
    "elementProp", "propChild", "elementChild", "allThree", "listOnly", "hiddenProp",
    "childNotModel", "childAddress", "listElementProp", "hiddenOnly", "hiddenChild",
    "boolean", "modifiersElement", "elementModifiers" }

SecondShapes == {"element", "elementProp", "childNotModel"}

\* the variants of the nested types: <<shape of NeighborModel.name, shape of
\* AddressModel.street>>
NestedShapes ==
  { <<"element", "element">>, <<"hiddenElement", "date">>,
    <<"elementProp", "element">>, <<"element", "elementHidden">>,
    <<"element", "propChild">>, <<"childNotModel", "element">>,
    <<"element", "bogus">>, <<"element", "prop">>, <<"element", "childParent">> }

\* the class fragments of a type: the @uimodel of tests/unit/models.ts, a
\* @uimodel whose props name an operation, nothing, @uihandlers alone, or
\* @uimodel with @uilistmodel
ClassFragments(type, kind) ==
  CASE kind = "uimodel" ->
         One("uimodel",
             IF type = "ParentModel"
             THEN uimodel("decaf-crud-form", TRUE, One("test", Str("1")), type)
             ELSE uimodel("", FALSE, EmptyMap, type))
    [] kind = "operation" ->
         One("uimodel", uimodel("decaf-crud-form", TRUE, Operation("update"), type))
    [] kind = "none" -> <<>>
    [] kind = "handlers" -> One("handlers", uihandlers("handler"))
    [] kind = "list" ->
         Assign(One("uimodel", uimodel("decaf-list", FALSE, EmptyMap, type)),
                One("uilistmodel", uilistmodel("", TRUE, One("lines", Str("full")), type)))

\* which type departs from @uimodel, and how
ClassVariants ==
  {<<"ParentModel", "uimodel">>}
    \cup (Types \X {"none"})
    \cup {<<"NeighborModel", "handlers">>, <<"NeighborModel", "operation">>,
          <<"ParentModel", "list">>,
          <<"ParentModel", "operation">>}

PropertyNames ==
  [ ParentModel |-> <<"name", "email", "neighbor">>,
    NeighborModel |-> <<"name", "address">>,
    AddressModel |-> <<"street">> ]

Shapes(s1, s2, nested) ==
  [ ParentModel |->
      [ name |-> Shape(s1, "name"), email |-> Shape(s2, "email"),
        neighbor |-> Shape("childNeighbor", "neighbor") ],
    NeighborModel |->
      [ name |-> Shape(nested[1], "name"),
        address |-> Shape("childAddress", "address") ],
    AddressModel |-> [ street |-> Shape(nested[2], "street") ] ]

\* the UI metadata the decorators leave in the Metadata Store; declared is the
\* validation list of a property as its decorators wrote it
UIStore(s1, s2, nested, variant) ==
  LET sh == Shapes(s1, s2, nested)
  IN [ t \in Types |->
       [ cls |-> ClassFragments(t, IF t = variant[1] THEN variant[2] ELSE "uimodel"),
         props |-> PropertyNames[t],
         decs |-> [p \in DOMAIN sh[t] |-> sh[t][p].decs],
         declared |-> [p \in DOMAIN sh[t] |-> sh[t][p].vals],
         isModel |-> [p \in DOMAIN sh[t] |-> sh[t][p].isModel] ] ]

\* the validation metadata, Metadata.get(constructor, ValidationKeys.REFLECT)
ValidationStore(s1, s2, nested) ==
  LET sh == Shapes(s1, s2, nested)
  IN [t \in Types |-> [p \in DOMAIN sh[t] |-> sh[t][p].vals]]

-----------------------------------------------------------------------------
(* Inputs of a build call *)

\* how many levels of a model instance are filled in; below, values are undefined
MaxDepth == 3

\* the class a child placement names
ChildClass(U, type, p) ==
  LET decs == U[type].decs[p]
      child == SelectSeq(decs, LAMBDA d : d.key = UIKeys.CHILD)
  IN IF Len(child) = 0 THEN "undefined" ELSE Get(child[1].props.props, "name").s

PropertySet(U, type) == {U[type].props[i] : i \in DOMAIN U[type].props}

\* an instance of type with d levels filled in, v the value of the scalars
RECURSIVE MkInstance(_, _, _, _)
MkInstance(U, type, d, v) ==
  IF d = 0 \/ type \notin DOMAIN U THEN NewInstance(type)
  ELSE [ type |-> type,
         vals |-> [p \in {q \in PropertySet(U, type) : ~U[type].isModel[q]} |-> v],
         sub |-> [p \in {q \in PropertySet(U, type) : U[type].isModel[q] /\ d > 1} |->
                    MkInstance(U, ChildClass(U, type, p), d - 1, v)] ]

\* the contextProps of the callers
Contexts ==
  { EmptyMap, Operation("update"),
    Assign3(Operation("read"), One("type", Str("hidden")), One("minlength", Num(1))) }

\* the data of the callers: how deep the instances are filled in, and with what
Data == {<<1, Str("a<b")>>, <<MaxDepth, DateVal("2024-01-02")>>}

\* the model types of a process: the annotations of ParentModel.name and .email
\* in every combination, and those of the nested types and of the classes
Configurations ==
  (FirstShapes \X SecondShapes \X {<<"element", "element">>}
     \X {<<"ParentModel", "uimodel">>})
    \cup ({"elementHidden"} \X {"element"} \X NestedShapes \X ClassVariants)

\* the orders in which ParentModel declares its properties, which is the order
\* of Object.keys on its property metadata: the child last, or the child first
Declarations == {PropertyNames.ParentModel, <<"neighbor", "name", "email">>}

Declare(U, order) == [U EXCEPT !.ParentModel.props = order]

-----------------------------------------------------------------------------
(* The builder as a state machine: the stores after the decorators ran, a
   caller with its context and data, and one action, a call of
   toFieldDefinition by a rendering adapter *)

NoCall ==
  [ op |-> "none", model |-> NoInstance, globalProps |-> EmptyMap, err |-> "none",
    tree |-> NoNode, trace |-> <<>> ]

NoAnswer == [op |-> "none", flavour |-> "", err |-> "none", engine |-> 0]

NoAttr == [op |-> "none", key |-> "", metadata |-> EmptyMap, err |-> "none",
           value |-> Undef]

Init ==
  \E c \in Configurations, order \in Declarations, globalProps \in Contexts,
     data \in Data :
    /\ ui = Declare(UIStore(c[1], c[2], c[3], c[4]), order)
    /\ validation = ValidationStore(c[1], c[2], c[3])
    /\ shared \in BOOLEAN
    /\ caller = [globalProps |-> globalProps, depth |-> data[1], value |-> data[2]]
    /\ cache = <<>>
    /\ current = 0
    /\ engines = <<>>
    /\ last = NoCall
    /\ got = NoAnswer
    /\ attr = NoAttr

\* what a call of render on model leaves behind, r being the outcome of its
\* toFieldDefinition: the stored lists are shifted when they are shared
Rendered(model, r) ==
  /\ last' = [ op |-> "build", model |-> model,
               globalProps |-> caller.globalProps, err |-> r.err,
               tree |-> r.tree, trace |-> r.trace ]
  /\ validation' = IF shared THEN r.vs ELSE validation
  /\ UNCHANGED <<ui, shared, caller, cache, current, engines, got, attr>>

\* engine.render(model, globalProps), which builds the field definition of model
Render(model) ==
  Rendered(model, toFieldDefinition(ui, model, caller.globalProps, NoInherit, TRUE,
                                    validation, <<>>))

\* engine.render(model, globalProps) -> this.toFieldDefinition(model, globalProps);
\* validationDecs.shift() changes the list it was handed, which is the stored
\* one when the store is shared
Build ==
  \E type \in Types : Render(MkInstance(ui, type, caller.depth, caller.value))

Next == Build

Spec == Init /\ [][Next]_vars

-----------------------------------------------------------------------------
(* Rendering Engine Registry: the static cache and current of RenderingEngine.
   An engine is the index of its construction; cache maps a flavour to an
   engine or to a constructor of engines, current is one of these or 0 for
   undefined. *)

\* "toString" stands for the keys the cache object inherits from
\* Object.prototype, which the in operator finds too
Flavours == {"html", "angular", "toString"}
ObjectPrototype == {"toString"}

\* flavour in this.cache
InCache(c, flavour) == flavour \in DOMAIN c \/ flavour \in ObjectPrototype

\* register that replaces the engine of a flavour that is taken
registerOver(c, cur, engine, flavour) ==
  [err |-> "none", cache |-> Assign(c, One(flavour, engine)), current |-> engine]

\* RenderingEngine.register(engine): [err, cache, current]
register(c, cur, engine, flavour) ==
  IF InCache(c, flavour)
  THEN [err |-> "AlreadyExists", cache |-> c, current |-> cur]
  ELSE [err |-> "none", cache |-> Assign(c, One(flavour, engine)), current |-> engine]

\* the constructor of the engines of a flavour, as an entry of the cache, and
\* the flavour its instances pass to the constructor of RenderingEngine
Class(flavour) ==
  CASE flavour = "html" -> -2
    [] flavour = "angular" -> -3
    [] OTHER -> -4
FlavourOfClass(obj) == CHOOSE flavour \in Flavours : Class(flavour) = obj

\* what a call of the registry leaves when it constructs nothing
Kept(err, engine, c, cur) ==
  [err |-> err, engine |-> engine, cache |-> c, current |-> cur, made |-> ""]

\* const engine = new obj(); engine.initialize(); return engine: the
\* constructor of RenderingEngine registers the engine, r is the outcome of
\* that register, whose error is the error of new
Booted(r, engine, flavour) ==
  [err |-> r.err, engine |-> IF r.err = "none" THEN engine ELSE 0,
   cache |-> r.cache, current |-> r.current, made |-> flavour]

\* RenderingEngine.getOrBoot(obj): an instance is returned as it is, anything
\* else is called as a constructor; 0 is undefined, -1 a function inherited
\* from Object.prototype that is no constructor, n the number of engines
\* constructed so far
getOrBoot(c, cur, n, obj) ==
  IF obj > 0 THEN Kept("none", obj, c, cur)
  ELSE IF obj >= -1 THEN Kept("TypeError", 0, c, cur)
  ELSE Booted(register(c, cur, n + 1, FlavourOfClass(obj)), n + 1,
              FlavourOfClass(obj))

\* get that answers with the current engine whatever the flavour
getCurrent(c, cur, n, flavour) == getOrBoot(c, cur, n, cur)

\* RenderingEngine.get(flavour): "" is no flavour
get(c, cur, n, flavour) ==
  IF flavour = "" THEN getOrBoot(c, cur, n, cur)
  ELSE IF ~InCache(c, flavour) THEN Kept("DoesNotExist", 0, c, cur)
  ELSE getOrBoot(c, cur, n, IF flavour \in DOMAIN c THEN c[flavour] ELSE -1)

RegistryInit ==
  /\ ui = UIStore("element", "element", <<"element", "element">>,
                  <<"ParentModel", "uimodel">>)
  /\ validation = ValidationStore("element", "element", <<"element", "element">>)
  /\ shared = TRUE
  /\ caller = [globalProps |-> EmptyMap, depth |-> MaxDepth, value |-> Str("a<b")]
  /\ cache = <<>>
  /\ current = 0
  /\ engines = <<>>
  /\ last = NoCall
  /\ got = NoAnswer
  /\ attr = NoAttr

\* new Engine(flavour): the constructor of RenderingEngine registers this
Construct ==
  \E flavour \in Flavours :
    LET engine == Len(engines) + 1
        r == register(cache, current, engine, flavour)
    IN /\ Len(engines) < MaxEngines
       /\ engines' = Append(engines, [flavour |-> flavour, returned |-> r.err = "none"])
       /\ cache' = r.cache
       /\ current' = r.current
       /\ got' = [op |-> "construct", flavour |-> flavour, err |-> r.err,
                  engine |-> engine]
       /\ UNCHANGED <<ui, validation, shared, caller, last, attr>>

\* RenderingEngine.register(engine) called with an engine that exists
Register ==
  \E engine \in DOMAIN engines :
    LET r == register(cache, current, engine, engines[engine].flavour)
    IN /\ engines[engine].returned
       /\ cache' = r.cache
       /\ current' = r.current
       /\ got' = [op |-> "register", flavour |-> engines[engine].flavour,
                  err |-> r.err, engine |-> engine]
       /\ UNCHANGED <<ui, validation, shared, caller, engines, last, attr>>

\* the registry after a call of get whose outcome is r: an engine the call
\* constructed is one more engine, registered or not
Answered(op, flavour, r) ==
  /\ r.made # "" => Len(engines) < MaxEngines
  /\ got' = [op |-> op, flavour |-> flavour, err |-> r.err, engine |-> r.engine]
  /\ cache' = r.cache
  /\ current' = r.current
  /\ engines' = IF r.made = "" THEN engines
                ELSE Append(engines, [flavour |-> r.made, returned |-> r.err = "none"])
  /\ UNCHANGED <<ui, validation, shared, caller, last, attr>>

\* RenderingEngine.get(flavour)
GetEngine ==
  \E flavour \in Flavours \cup {""} :
    Answered("get", flavour, get(cache, current, Len(engines), flavour))

\* Model.renderedBy(model.constructor): the flavour @renderedBy attached to the
\* class of the model, "" for a class without it
renderedBy == Flavours \cup {""}

\* static RenderingEngine.render(model, ...args): the engine whose render is
\* called with the model, or the error of get; Model.fromObject(model) is the
\* model, so that the constructor test of the method never fails
render(c, cur, n, flavour) == get(c, cur, n, flavour)

\* model.render(...args) on a model whose class declares flavour
RenderModel ==
  \E flavour \in renderedBy :
    Answered("render", flavour, render(cache, current, Len(engines), flavour))

RegistryNext == Construct \/ Register \/ GetEngine \/ RenderModel

RegistrySpec == RegistryInit /\ [][RegistryNext]_vars

(* The registry with constructors among its entries: cache and current are
   declared to hold an engine or a constructor of engines, and register stores
   what it is given under the flavour property of it *)

\* RenderingEngine.register(Engine) called with a constructor whose static
\* flavour is key and whose instances have the flavour named
RegisterClass ==
  \E key \in Flavours, flavour \in Flavours :
    LET r == register(cache, current, Class(flavour), key)
    IN /\ cache' = r.cache
       /\ current' = r.current
       /\ got' = [op |-> "register", flavour |-> key, err |-> r.err,
                  engine |-> Class(flavour)]
       /\ UNCHANGED <<ui, validation, shared, caller, engines, last, attr>>

BootNext == RegistryNext \/ RegisterClass

BootSpec == RegistryInit /\ [][BootNext]_vars

-----------------------------------------------------------------------------
(* Type & Validation Translator as a state machine: a caller holds a key and
   the metadata of a validation fragment, and calls toAttributeValue *)

KeyInputs ==
  ValidatableByAttribute \cup ValidatableByType
    \cup {"type", "bogusKey", "invalidKey", ""}

ValueInputs == {Num(0), Num(5), Str("^a$"), Str(""), Bool(FALSE), Bool(TRUE)}

\* {message, [key]: value}, or the message alone
MetadataInputs(key) ==
  {One("message", Str("msg"))}
    \cup {Assign(One("message", Str("msg")), One(key, v)) : v \in ValueInputs}

\* the values of HTML5InputTypes, the select category of the components, the
\* base types in lower case and a key that is none of them
Categories ==
  { "button", "checkbox", "color", "date", "datetime-local", "email", "file",
    "hidden", "image", "month", "number", "password", "radio", "range", "reset",
    "search", "submit", "tel", "text", "textarea", "time", "url", "week" }
    \cup {"select", "string", "bigint", "boolean", "bogusKey"}

TranslatorInit ==
  /\ ui = UIStore("element", "element", <<"element", "element">>,
                  <<"ParentModel", "uimodel">>)
  /\ validation = ValidationStore("element", "element", <<"element", "element">>)
  /\ shared = TRUE
  /\ caller = [globalProps |-> EmptyMap, depth |-> MaxDepth, value |-> Str("a<b")]
  /\ cache = <<>>
  /\ current = 0
  /\ engines = <<>>
  /\ last = NoCall
  /\ got = NoAnswer
  /\ \E key \in KeyInputs :
       \E metadata \in MetadataInputs(key) :
         attr = [NoAttr EXCEPT !.key = key, !.metadata = metadata]

\* engine.toAttributeValue(key, metadata)
ToAttributeValue ==
  LET r == toAttributeValue(attr.key, attr.metadata)
  IN /\ attr' = [attr EXCEPT !.op = "toAttributeValue", !.err = r.err,
                   !.value = r.value]
     /\ UNCHANGED <<ui, validation, shared, caller, cache, current, engines, last, got>>

\* engine.translate(key, toView); the direction is kept with the call
Translate ==
  \E key \in Categories, toView \in BOOLEAN :
    /\ attr' = [op |-> "translate", key |-> key,
                metadata |-> One("toView", Bool(toView)), err |-> "none",
                value |-> Str(translate(key, toView))]
    /\ UNCHANGED <<ui, validation, shared, caller, cache, current, engines, last, got>>

TranslatorNext == ToAttributeValue \/ Translate

TranslatorSpec == TranslatorInit /\ [][TranslatorNext]_vars

-----------------------------------------------------------------------------
(* Properties of the Field Tree Builder *)

Built == last.op = "build"
Returned == Built /\ last.err = "none"
Failed(err) == Built /\ last.err = err /\ last.tree = NoNode

\* the calls of toFieldDefinition and the properties begun by the last build
Calls == {i \in DOMAIN last.trace : last.trace[i][1] = "call"}
Begun == {i \in DOMAIN last.trace : last.trace[i][1] = "key"}

ClassLevelKeys == {"uimodel", "uilistmodel", "handlers", "uilayout"}
Bare(type) == DOMAIN ui[type].cls \cap ClassLevelKeys = {}

\* C1: a call of toFieldDefinition on a model whose type carries no class-level
\* fragment (model, list-model, handlers, layout) fails with the
\* missing-UI-definition error and no tree is returned: the call of the caller
\* at the root, and the call for a nested submodel that a child placement makes
\* with the tag and props of the child annotation as inheritProps; the build
\* ends with that call.
C1_MissingUIDefinition ==
  Built =>
    \A i \in Calls :
      Bare(last.trace[i][2]) =>
        /\ Failed("MissingUIDefinition")
        /\ i = Len(last.trace)

\* a child placement reached a nested submodel of a bare type, with inheritProps
C1_Witness ==
  /\ Failed("MissingUIDefinition")
  /\ Len(last.trace) > 1
  /\ LET c == last.trace[Len(last.trace)]
     IN c[1] = "call" /\ c[3] = "inheritProps" /\ Bare(c[2]) /\ ~Bare(last.model.type)

\* the annotations of a property, as the decorators stored them
KeysOf(type, p) == {ui[type].decs[p][i].key : i \in DOMAIN ui[type].decs[p]}
Placements(type, p) ==
  Cardinality({i \in DOMAIN ui[type].decs[p] :
                 ui[type].decs[p][i].key \in {"prop", "element", "child"}})
Conflicting(type, p) == Placements(type, p) >= 2
PropertiesOf(type) == {ui[type].props[i] : i \in DOMAIN ui[type].props}

\* C2 as stated: whatever the other properties of the model are, a property with
\* two or more of the placements prop, element, child makes build raise the
\* conflicting-placement error and return no tree.
C2_AnyConflictRaisesConflict ==
  Built =>
    \A p \in PropertiesOf(last.model.type) :
      Conflicting(last.model.type, p) => Failed("ConflictingPlacement")

\* C2, amended: a model with a property that carries two or more of the
\* placements prop, element, child is never built: build fails and returns no
\* tree.  The error is the conflicting-placement error when build gets to that
\* property, in the root model or a nested one; the check of the class-level
\* fragments and the properties enumerated before it raise their own errors
\* first.
C2_ConflictingPlacement ==
  Built =>
    /\ \A p \in PropertiesOf(last.model.type) :
         Conflicting(last.model.type, p) => last.err # "none" /\ last.tree = NoNode
    /\ \A i \in Begun :
         Conflicting(last.trace[i][2], last.trace[i][3]) =>
           Failed("ConflictingPlacement") /\ i = Len(last.trace)

\* the conflict is found after other properties of the model were built
C2_Witness ==
  /\ Failed("ConflictingPlacement")
  /\ \E i \in Begun : i < Len(last.trace)
  /\ LET k == last.trace[Len(last.trace)] IN k[1] = "key" /\ Conflicting(k[2], k[3])

\* the node built for the property p of a model node, 0 when there is none: an
\* element node is known by its path, the model node of a child by childOf
NodeOf(node, keys, p) ==
  LET path == getPath(Get(node.props, "childOf"), Str(p))
      hits == {i \in DOMAIN node.children :
                 /\ node.children[i].keys = keys
                 /\ Get(node.children[i].props,
                        IF keys = "element" THEN "path" ELSE "childOf") = path}
  IN IF hits = {} THEN 0 ELSE CHOOSE i \in hits : TRUE

HiddenOn(type, p) ==
  LET h == SelectSeq(ui[type].decs[p], LAMBDA d : d.key = "hidden")
  IN {h[1].props.val.l[i] : i \in DOMAIN h[1].props.val.l}

ElementHidden(type, p) == {"element", "hidden"} \subseteq KeysOf(type, p)

\* the hidden element properties of a model node of the given type and of the
\* model nodes below it have a node exactly when the operation is none of
\* those they are hidden on; the operation is that of the context (fromContext)
\* or the operation entry of the props of the model node
RECURSIVE HiddenRespected(_, _, _)
HiddenRespected(type, node, fromContext) ==
  LET o == IF fromContext THEN Get(last.globalProps, "operation")
           ELSE Get(node.props, "operation")
  IN \A p \in PropertiesOf(type) :
       /\ ElementHidden(type, p) =>
            (NodeOf(node, "element", p) = 0 <=> o.k = "string" /\ o.s \in HiddenOn(type, p))
       /\ "child" \in KeysOf(type, p) =>
            /\ NodeOf(node, "model", p) # 0
            /\ HiddenRespected(ChildClass(ui, type, p),
                               node.children[NodeOf(node, "model", p)], fromContext)

\* C3 as stated: the tree build returns has no node for an element property
\* hidden on the operations S when the operation o of the context is in S, and
\* has the node when o is not in S or the context has no operation; at the
\* root and in nested submodels.
C3_HiddenOnContextOperation ==
  Returned => HiddenRespected(last.model.type, last.tree, TRUE)

\* C3, amended: for every element property hidden on the operations S, at the
\* root or in a nested submodel, the tree build returns has no node for it among
\* the children of its model node when the operation o is in S, and has the
\* node when o is not in S or there is no o.  o is the operation entry of the
\* props of that model node: the operation of the context, or, when the context
\* has none, the operation entry of the static props of the model (those of
\* @uimodel, or those of the child annotation for a nested submodel).
C3_HiddenOnOperation ==
  Returned => HiddenRespected(last.model.type, last.tree, FALSE)

\* a nested submodel lost the node of a property hidden on the operation of the
\* context, the hidden fragment having been attached before the element fragment
C3_Witness ==
  /\ Returned
  /\ Get(last.globalProps, "operation") = Str("update")
  /\ last.model.type = "ParentModel"
  /\ ElementHidden("NeighborModel", "name")
  /\ ui["NeighborModel"].decs["name"][1].key = "hidden"
  /\ "update" \in HiddenOn("NeighborModel", "name")
  /\ NodeOf(last.tree, "model", "neighbor") # 0
  /\ LET n == last.tree.children[NodeOf(last.tree, "model", "neighbor")]
     IN NodeOf(n, "element", "name") = 0 /\ NodeOf(n, "model", "address") # 0

RECURSIVE TreeShape(_)
TreeShape(node) ==
  [ tag |-> node.tag,
    children |-> [i \in DOMAIN node.children |-> TreeShape(node.children[i])] ]

\* the instance of the caller with every level filled in
Filled(type) == MkInstance(ui, type, MaxDepth, caller.value)

\* C5: a build of a model whose child-placed properties are undefined has the
\* outcome of the build, from the same stores and with the same context, of the
\* model with real submodel instances in them: the same error, or a tree of the
\* same shape (tags, number and order of children, recursively), in which every
\* child-placed property has its subtree.
C5_PlaceholderShape ==
  [][ LET real == toFieldDefinition(ui, Filled(last'.model.type), last'.globalProps,
                                    NoInherit, TRUE, validation, <<>>)
      IN last'.op = "build" =>
           /\ last'.err = real.err
           /\ last'.err = "none" =>
                /\ TreeShape(last'.tree) = TreeShape(real.tree)
                /\ \A p \in PropertiesOf(last'.model.type) :
                     "child" \in KeysOf(last'.model.type, p) =>
                       NodeOf(last'.tree, "model", p) # 0 ]_vars

\* a tree was returned for a ParentModel whose neighbor is undefined, with the
\* subtree of neighbor and, inside it, that of address
C5_Witness ==
  /\ Returned
  /\ last.model.type = "ParentModel"
  /\ "neighbor" \notin DOMAIN last.model.sub
  /\ NodeOf(last.tree, "model", "neighbor") # 0
  /\ LET n == last.tree.children[NodeOf(last.tree, "model", "neighbor")]
     IN /\ n.tag = Str("fieldset-neighbor-component")
        /\ NodeOf(n, "model", "address") # 0
        /\ Len(n.children[NodeOf(n, "model", "address")].children) > 0

\* the element nodes of a tree built for the instance inst, each with the type
\* and the property it was built for and the value of the property
RECURSIVE ElementNodes(_, _)
ElementNodes(inst, node) ==
  UNION { IF NodeOf(node, "element", p) # 0
          THEN {[ type |-> inst.type, key |-> p, value |-> Get(inst.vals, p),
                  node |-> node.children[NodeOf(node, "element", p)] ]}
          ELSE IF NodeOf(node, "model", p) # 0
          THEN ElementNodes(IF p \in DOMAIN inst.sub THEN inst.sub[p]
                            ELSE NewInstance(ChildClass(ui, inst.type, p)),
                            node.children[NodeOf(node, "model", p)])
          ELSE {} : p \in PropertiesOf(inst.type) }

Emitted == ElementNodes(last.model, last.tree)

\* the validation fragments the decorators of a property declared, after the
\* base-type descriptor
Declared(type, p) == Tail(ui[type].declared[p])
BaseType(type, p) == Head(ui[type].declared[p]).props["name"].s
TypeImplying(type, p) ==
  \E i \in DOMAIN Declared(type, p) :
    Declared(type, p)[i].key \in {"email", "url", "date", "password"}

\* the static props of the fragments of a property, and what is merged into a
\* node before its type is inferred
StaticProps(type, p) ==
  LET withProps == SelectSeq(ui[type].decs[p],
                     LAMBDA d : d.key \in {"element", "listprop"} /\ d.props.hasProps)
  IN UNION {DOMAIN withProps[i].props.props : i \in DOMAIN withProps}
Supplied(e) == StaticProps(e.type, e.key) \cup DOMAIN last.globalProps

FormattedByDefault(e) ==
  Get(e.node.props, "value") =
    IF e.value = Undef THEN Str("") ELSE Str("yyyy-MM-dd" \o "|" \o e.value.s)

\* C6 as stated: the node emitted for an element property of base type date
\* without type-implying validation fragment has the type "date", and its value
\* is formatted with the default "yyyy-MM-dd" when no format is declared.
C6_DateAlwaysInferred ==
  Returned =>
    \A e \in Emitted :
      (BaseType(e.type, e.key) = "Date" /\ ~TypeImplying(e.type, e.key)) =>
        /\ Get(e.node.props, "type") = Str("date")
        /\ "format" \notin Supplied(e) => FormattedByDefault(e)

\* C6, amended: the node emitted for an element property of base type date
\* without type-implying validation fragment, when neither the static props
\* merged into the node nor the context supply a type, has the type "date";
\* when none of them declares a format either, the node has no format entry and
\* its value is the date formatted with the default "yyyy-MM-dd" (the empty
\* string for an undefined value).
C6_DateInferred ==
  Returned =>
    \A e \in Emitted :
      ( /\ BaseType(e.type, e.key) = "Date"
        /\ ~TypeImplying(e.type, e.key)
        /\ "type" \notin Supplied(e) ) =>
        /\ Get(e.node.props, "type") = Str("date")
        /\ "format" \notin Supplied(e) =>
             "format" \notin DOMAIN e.node.props /\ FormattedByDefault(e)

\* a date property of a nested submodel, with a value, was given the type date
\* and the default format
C6_Witness ==
  /\ Returned
  /\ \E e \in Emitted :
       /\ e.type # last.model.type
       /\ BaseType(e.type, e.key) = "Date"
       /\ ~TypeImplying(e.type, e.key)
       /\ Supplied(e) \cap {"type", "format"} = {}
       /\ e.value.k = "date"
       /\ Get(e.node.props, "type") = Str("date")
       /\ Get(e.node.props, "value") = Str("yyyy-MM-dd|2024-01-02")

ChildNotModel(type, p) == "child" \in KeysOf(type, p) /\ ~ui[type].isModel[p]

\* C7 as stated: a child placement on a property whose declared type is no
\* model type makes build fail with the child-not-a-model error and return no
\* tree.
C7_AnyChildNotModelRaises ==
  Built =>
    \A p \in PropertiesOf(last.model.type) :
      ChildNotModel(last.model.type, p) => Failed("ChildNotAModel")

\* C7, amended: a model with a child placement on a property whose declared
\* type is no model type is never built: build fails and returns no tree,
\* whatever the value of the property.  The error is the child-not-a-model
\* error when build gets to that property and the property has no other
\* placement and no hidden annotation; the class-level check, the properties
\* enumerated before it, a second placement (conflicting-placement error) and a
\* hidden annotation (hidden-without-element error) raise their errors first.
C7_ChildNotAModel ==
  Built =>
    /\ \A p \in PropertiesOf(last.model.type) :
         ChildNotModel(last.model.type, p) => last.err # "none" /\ last.tree = NoNode
    /\ \A i \in Begun :
         LET type == last.trace[i][2]
             p == last.trace[i][3]
         IN ( /\ ChildNotModel(type, p)
              /\ Placements(type, p) = 1
              /\ "hidden" \notin KeysOf(type, p) ) =>
              Failed("ChildNotAModel") /\ i = Len(last.trace)

\* the child placement of a nested submodel is on a property that is no model,
\* and the value of the property is undefined
C7_Witness ==
  /\ Failed("ChildNotAModel")
  /\ LET k == last.trace[Len(last.trace)]
     IN /\ k[1] = "key"
        /\ k[2] # last.model.type
        /\ ChildNotModel(k[2], k[3])
  /\ last.model.sub = <<>>

Unknown(type, p) ==
  {i \in DOMAIN Declared(type, p) :
     Declared(type, p)[i].key \notin ValidatableByAttribute \cup ValidatableByType}

\* C8 as stated: an element property with a validation fragment whose key is in
\* neither the attribute-validatable nor the type-validatable set makes build,
\* when it gets to the property, throw the invalid-attribute-key error and
\* return no tree.
C8_UnknownKeyThrows ==
  Built =>
    \A i \in Begun :
      LET type == last.trace[i][2]
          p == last.trace[i][3]
      IN (KeysOf(type, p) = {"element"} /\ Unknown(type, p) # {}) =>
           Failed("InvalidAttributeKey")

\* C8, amended: a validation fragment of an element property whose key is in
\* neither the attribute-validatable nor the type-validatable set is skipped by
\* build: build never throws the invalid-attribute-key error, and the node it
\* emits for the property has no entry for that key.  The error naming the
\* allowed set is thrown by toAttributeValue, which build calls for the keys of
\* the attribute-validatable set only.
C8_UnknownKeySkipped ==
  /\ Built => last.err # "InvalidAttributeKey"
  /\ Returned =>
       \A e \in Emitted :
         \A i \in Unknown(e.type, e.key) :
           /\ Declared(e.type, e.key)[i].key \notin DOMAIN e.node.props
           /\ toAttributeValue(Declared(e.type, e.key)[i].key,
                               Declared(e.type, e.key)[i].props).err
                = "InvalidAttributeKey"

\* a tree was returned with the node of a property that has a fragment of
\* unknown key, and the attribute of the fragment after it
C8_Witness ==
  /\ Returned
  /\ \E e \in Emitted :
       /\ Unknown(e.type, e.key) # {}
       /\ Get(e.node.props, "max") = Num(9)
       /\ "bogusKey" \notin DOMAIN e.node.props

-----------------------------------------------------------------------------
(* Properties of the Type & Validation Translator *)

\* C9: toAttributeValue(key, metadata) returns the boolean true for the key
\* "required" whatever the metadata holds, returns metadata[key] as it is for
\* the other keys of the attribute-validatable set (min, max, step, minlength,
\* maxlength, pattern, and the comparison keys), and throws the error that
\* lists the allowed keys for every other key.
C9_ToAttributeValue ==
  attr.op = "toAttributeValue" =>
    /\ attr.key = "required" => attr.err = "none" /\ attr.value = Bool(TRUE)
    /\ attr.key \in { "min", "max", "step", "minlength", "maxlength", "pattern",
                       "equals", "different", "lessThan", "lessThanOrEqual",
                       "greaterThan", "greaterThanOrEqual" } =>
         /\ attr.err = "none"
         /\ attr.value = IF attr.key \in DOMAIN attr.metadata
                         THEN attr.metadata[attr.key] ELSE Undef
    /\ attr.key \notin { "required", "min", "max", "step", "minlength", "maxlength",
                          "pattern", "equals", "different", "lessThan",
                          "lessThanOrEqual", "greaterThan", "greaterThanOrEqual" } =>
         attr.err = "InvalidAttributeKey" /\ attr.value = Undef

\* required was asked for with a metadata that holds false for it
C9_Witness ==
  /\ attr.op = "toAttributeValue"
  /\ attr.key = "required"
  /\ Get(attr.metadata, "required") = Bool(FALSE)
  /\ attr.value = Bool(TRUE)

-----------------------------------------------------------------------------
(* Properties of the Rendering Engine Registry *)

\* C10: after any sequence of constructions, register and get calls, a
\* register of an engine whose flavour is a key of the cache fails with the
\* already-exists error, and leaves the entry of the flavour in the cache and
\* the current engine as they were.
C10_RegisterTaken ==
  [][ (got'.op \in {"construct", "register"} /\ got'.flavour \in DOMAIN cache) =>
        /\ got'.err = "AlreadyExists"
        /\ got'.flavour \in DOMAIN cache'
        /\ cache'[got'.flavour] = cache[got'.flavour]
        /\ current' = current ]_vars

\* an engine was constructed for a flavour taken by another engine, which is
\* not the current one
C10_Witness ==
  /\ got.op = "construct"
  /\ got.err = "AlreadyExists"
  /\ got.flavour \in DOMAIN cache
  /\ cache[got.flavour] # got.engine
  /\ current # cache[got.flavour]
  /\ current # 0

\* C11: get(flavour), and so the rendering of a model that declares flavour,
\* throws the error "Rendering engine under <flavour> does not exist" whenever
\* no engine was registered under the flavour.
C11_UnknownFlavour ==
  [][ ( /\ got'.op \in {"get", "render"}
        /\ got'.flavour # ""
        /\ got'.flavour \notin DOMAIN cache ) =>
        got'.err = "DoesNotExist" ]_vars

\* the structural error the annotations hold for a step of the build, "none"
\* when they hold none: a call on a type without class-level fragment, a
\* property without placement or with several, hidden without an element, a
\* child placement on a property that is no model
Fault(step) ==
  IF step[1] = "call"
  THEN IF step[2] \in DOMAIN ui /\ Bare(step[2]) THEN "MissingUIDefinition" ELSE "none"
  ELSE IF step[1] = "return" THEN "none"
  ELSE IF Placements(step[2], step[3]) = 0 THEN "NoUITypeMetadata"
  ELSE IF Conflicting(step[2], step[3]) THEN "ConflictingPlacement"
  ELSE IF "hidden" \in KeysOf(step[2], step[3]) /\ "element" \notin KeysOf(step[2], step[3])
  THEN "HiddenWithoutElement"
  ELSE IF ChildNotModel(step[2], step[3]) THEN "ChildNotAModel"
  ELSE "none"

\* C13: a build that fails returns no tree, and a structural error of a call
\* or of a property, at any nesting depth, is the error of the root call: the
\* property or call it arises for is the last the build takes up, so that no
\* further property is walked after it.
C13_NoPartialTree ==
  Built =>
    /\ last.err # "none" => last.tree = NoNode
    /\ \A i \in DOMAIN last.trace :
         Fault(last.trace[i]) # "none" =>
           Failed(Fault(last.trace[i])) /\ i = Len(last.trace)

\* the error arose two calls below the root, while the root had properties
\* left to walk
C13_Witness ==
  /\ Built
  /\ \A i \in Begun : last.trace[i][2] = "ParentModel" => last.trace[i][3] = "neighbor"
  /\ LET k == last.trace[Len(last.trace)]
     IN /\ k[1] = "key"
        /\ k[2] = "AddressModel"
        /\ Fault(k) = last.err
        /\ last.err \in {"ConflictingPlacement", "ChildNotAModel"}
  /\ last.model.type = "ParentModel"
  /\ last.tree = NoNode

\* the properties of a type that carry a child placement, and the group nodes
\* among the children of a node
ChildPlaced(type) == {p \in PropertiesOf(type) : "child" \in KeysOf(type, p)}
Groups(node) == {i \in DOMAIN node.children : node.children[i].keys = "model"}

\* the names of chain and p joined with a dot; chain is "" at the root
Chain(chain, p) == IF chain = "" THEN p ELSE chain \o "." \o p

\* the group nodes below node, a node built for type at the end of chain, are
\* one for each child-placed property p of type, with Chain(chain, p) as childOf
RECURSIVE GroupsChained(_, _, _)
GroupsChained(type, node, chain) ==
  /\ Cardinality(Groups(node)) = Cardinality(ChildPlaced(type))
  /\ \A p \in ChildPlaced(type) :
       \E i \in Groups(node) :
         /\ Get(node.children[i].props, "childOf") = Str(Chain(chain, p))
         /\ GroupsChained(ChildClass(ui, type, p), node.children[i], Chain(chain, p))

\* C14: in a tree build returns, the group node of a child placement has as
\* props.childOf the names of the properties that lead to it from the root,
\* joined with dots: the name of the property for a child of the root
\* ("neighbor"), the childOf of the parent, a dot and the name below it
\* ("neighbor.address").
C14_ChildOfChain ==
  Returned => GroupsChained(last.model.type, last.tree, "")

\* a ParentModel with no submodel was built: the group of address, two levels
\* down, has the childOf "neighbor.address"
C14_Witness ==
  /\ Returned
  /\ last.model.type = "ParentModel"
  /\ last.model.sub = <<>>
  /\ \E i \in Groups(last.tree) :
       /\ Get(last.tree.children[i].props, "childOf") = Str("neighbor")
       /\ \E j \in Groups(last.tree.children[i]) :
            Get(last.tree.children[i].children[j].props, "childOf")
              = Str("neighbor.address")

\* no node below node carries a rendererId
RECURSIVE NoIdBelow(_)
NoIdBelow(node) ==
  \A i \in DOMAIN node.children :
    ~node.children[i].rendererId /\ NoIdBelow(node.children[i])

\* C15: in a tree returned by a build with generateId true, the root node
\* carries a rendererId and no other node does: no group node of a child
\* placement and no element node, at any depth.
C15_RootOnlyRendererId ==
  Returned => last.tree.rendererId /\ NoIdBelow(last.tree)

\* the tree has a group node that has a group node among its children
C15_Witness ==
  /\ Returned
  /\ last.tree.rendererId
  /\ \E i \in Groups(last.tree) :
       /\ Groups(last.tree.children[i]) # {}
       /\ \E j \in DOMAIN last.tree.children[i].children :
            last.tree.children[i].children[j].keys = "element"

\* the properties the last build took up that carry a list-prop
ListProps == {i \in Begun : "listprop" \in KeysOf(last.trace[i][2], last.trace[i][3])}

HiddenNoElement(type, p) == "hidden" \in KeysOf(type, p) /\ "element" \notin KeysOf(type, p)

\* C17: a property that carries a hidden annotation and no element placement
\* (hidden alone, with a prop, or with a child placement) makes build fail
\* with an error and no tree; when build gets to the property the error is
\* raised before anything is built for it: the property is the last step of
\* the build, no nested call is made for it.
C17_HiddenNeedsElement ==
  Built =>
    /\ \A p \in PropertiesOf(last.model.type) :
         HiddenNoElement(last.model.type, p) => last.err # "none" /\ last.tree = NoNode
    /\ \A i \in Begun :
         HiddenNoElement(last.trace[i][2], last.trace[i][3]) =>
           /\ i = Len(last.trace)
           /\ last.tree = NoNode
           /\ last.err = IF Placements(last.trace[i][2], last.trace[i][3]) = 0
                         THEN "NoUITypeMetadata"
                         ELSE IF Conflicting(last.trace[i][2], last.trace[i][3])
                         THEN "ConflictingPlacement"
                         ELSE "HiddenWithoutElement"

\* build walked the submodels of neighbor and then stopped at name, hidden
\* with a child placement, without a call for its submodel
C17_Witness ==
  /\ Failed("HiddenWithoutElement")
  /\ Len(last.trace) > 2
  /\ LET k == last.trace[Len(last.trace)]
     IN /\ k = <<"key", "ParentModel", "name">>
        /\ KeysOf("ParentModel", "name") = {"hidden", "child"}

Leaves(node) == {i \in DOMAIN node.children : node.children[i].keys = "element"}
ElementPlaced(type) == {p \in PropertiesOf(type) : "element" \in KeysOf(type, p)}

\* every element node below node, a node built for type at the end of chain,
\* is the node of an element-placed property p, with Chain(chain, p) as path
RECURSIVE ElementsPathed(_, _, _)
ElementsPathed(type, node, chain) ==
  /\ \A i \in Leaves(node) :
       \E p \in ElementPlaced(type) :
         /\ Get(node.children[i].props, "name") = Str(p)
         /\ Get(node.children[i].props, "path") = Str(Chain(chain, p))
  /\ \A i \in Groups(node) :
       \E p \in ChildPlaced(type) :
         /\ Get(node.children[i].props, "childOf") = Str(Chain(chain, p))
         /\ ElementsPathed(ChildClass(ui, type, p), node.children[i], Chain(chain, p))

\* the paths of the element nodes of a tree, one entry for each node
RECURSIVE Paths(_)
RECURSIVE PathsFrom(_, _)
PathsFrom(node, i) ==
  IF i > Len(node.children) THEN <<>>
  ELSE (IF node.children[i].keys = "element"
        THEN <<Get(node.children[i].props, "path")>>
        ELSE Paths(node.children[i])) \o PathsFrom(node, i + 1)
Paths(node) == PathsFrom(node, 1)

\* C19: in a tree build returns, the path of every element node is the names
\* of the properties of its ancestors and its own, joined with dots, and no
\* two element nodes of the tree have the same path.
C19_ElementPaths ==
  Returned =>
    /\ ElementsPathed(last.model.type, last.tree, "")
    /\ \A i, j \in DOMAIN Paths(last.tree) :
         Paths(last.tree)[i] = Paths(last.tree)[j] => i = j

\* the tree holds the element of name of the root, that of name of neighbor
\* and that of street two levels down
C19_Witness ==
  /\ Returned
  /\ {Str("name"), Str("neighbor.name"), Str("neighbor.address.street")}
       \subseteq {Paths(last.tree)[i] : i \in DOMAIN Paths(last.tree)}

\* the value of an element node for the value v of its property: a date in the
\* format of the node, "yyyy-MM-dd" when it has none, and the empty string for
\* no date; v itself for every other type
Formatted(node, v) ==
  IF Get(node.props, "type") = Str("date")
  THEN IF v \in {Undef, Str("")} THEN Str("")
       ELSE Str((IF Get(node.props, "format") \in {Undef, Str("")} THEN "yyyy-MM-dd"
                 ELSE Get(node.props, "format").s) \o "|" \o v.s)
  ELSE v

\* C20: every element node of a tree build returns has a value entry in its
\* props, which is the value the model holds for the property, formatted for
\* the type of the node: a date in the format of the node, any other type as
\* it is; also for a property whose value is undefined.
C20_ValuePresent ==
  Returned =>
    \A e \in Emitted :
      /\ "value" \in DOMAIN e.node.props
      /\ Get(e.node.props, "value") = Formatted(e.node, e.value)

\* a tree with the node of a date that is undefined, whose value is the empty
\* string, and the node of a text that is passed through
C20_Witness ==
  /\ Returned
  /\ \E e \in Emitted :
       /\ e.value = Undef
       /\ Get(e.node.props, "type") = Str("date")
       /\ Get(e.node.props, "value") = Str("")
  /\ \E e \in Emitted :
       /\ e.value = Str("a<b")
       /\ Get(e.node.props, "type") = Str("text")
       /\ Get(e.node.props, "value") = Str("a<b")

\* the order a property declares with @uiorder, 0 without one, and the place of
\* the property in the enumeration of its type
OrderMod(type, p) ==
  LET o == SelectSeq(ui[type].decs[p], LAMBDA d : d.key = "order")
  IN IF Len(o) = 0 THEN 0 ELSE o[1].props.val.n
Pos(type, p) == CHOOSE i \in DOMAIN ui[type].props : ui[type].props[i] = p

\* the property of type a child c of a node at the end of chain was built for
KeyOfChild(type, c, chain) ==
  CHOOSE p \in PropertiesOf(type) :
    \/ c.keys = "element" /\ Get(c.props, "name") = Str(p)
    \/ c.keys = "model" /\ Get(c.props, "childOf") = Str(Chain(chain, p))

\* the children of node, and of the group nodes below it, are in ascending
\* order of the orders declared, in the order of enumeration where these are
\* equal
RECURSIVE Ordered(_, _, _)
Ordered(type, node, chain) ==
  /\ \A i, j \in DOMAIN node.children :
       i < j =>
         LET a == KeyOfChild(type, node.children[i], chain)
             b == KeyOfChild(type, node.children[j], chain)
         IN \/ OrderMod(type, a) < OrderMod(type, b)
            \/ OrderMod(type, a) = OrderMod(type, b) /\ Pos(type, a) < Pos(type, b)
  /\ \A i \in Groups(node) :
       LET p == KeyOfChild(type, node.children[i], chain)
       IN Ordered(ChildClass(ui, type, p), node.children[i], Chain(chain, p))

Written(e) ==
  {translate(Declared(e.type, e.key)[i].key, TRUE) :
     i \in {j \in DOMAIN Declared(e.type, e.key) :
              Declared(e.type, e.key)[j].key \in ValidatableByAttribute}}
    \cup (IF TypeImplying(e.type, e.key) THEN {"type", "format"} ELSE {})
    \cup {"value"}
    \cup (KeysOf(e.type, e.key) \cap {"hidden", "order"})

ChildDec(type, p) ==
  SelectSeq(ui[type].decs[p], LAMBDA d : d.key = "child")[1].props
ClassProps(type) ==
  UNION {DOMAIN ui[type].cls[f].props : f \in DOMAIN ui[type].cls}

\* the entries that are put over the merged class props of a nested call: the
\* context of the caller, model, childOf and handlers
OverClass == DOMAIN last.globalProps \cup {"model", "childOf", "handlers"}

\* the group nodes below node have the tag and the props of their child
\* annotation, and nothing of the props of the class of the submodel
RECURSIVE Inherits(_, _, _)
Inherits(type, node, chain) ==
  \A i \in Groups(node) :
    LET p == KeyOfChild(type, node.children[i], chain)
        sub == ChildClass(ui, type, p)
        g == node.children[i]
    IN /\ Truthy(ChildDec(type, p).tag) => g.tag = ChildDec(type, p).tag
       /\ \A k \in DOMAIN ChildDec(type, p).props \ OverClass :
            Get(g.props, k) = ChildDec(type, p).props[k]
       /\ \A k \in ClassProps(sub) \ (DOMAIN ChildDec(type, p).props \cup OverClass) :
            k \notin DOMAIN g.props
       /\ Inherits(sub, g, Chain(chain, p))

\* C23: the group node of a child placement has the tag of the child
\* annotation whenever the annotation gives one, never the tag of the
\* @uimodel of the submodel, and the props of the child annotation in the
\* place of the props the class of the submodel declares.
C23_InheritPropsOverride ==
  Returned => Inherits(last.model.type, last.tree, "")

\* NeighborModel declares the tag decaf-crud-form and an operation in its
\* props: the group of neighbor has the tag and the name of the child
\* annotation and no operation
C23_Witness ==
  /\ Returned
  /\ last.model.type = "ParentModel"
  /\ "operation" \in ClassProps("NeighborModel")
  /\ \E i \in Groups(last.tree) :
       /\ last.tree.children[i].tag = Str("fieldset-neighbor-component")
       /\ Get(last.tree.children[i].props, "name") = Str("NeighborModel")
       /\ "operation" \notin DOMAIN last.tree.children[i].props

\* the input type of a base type, and the key of the last type-implying
\* validation fragment of a property
Forward(name) ==
  CASE name = "String" -> "text"
    [] name \in {"Number", "BigInt"} -> "number"
    [] name = "Boolean" -> "checkbox"
    [] name = "Date" -> "date"
    [] OTHER -> name
LastImplying(fragments) ==
  LET at == {i \in DOMAIN fragments :
               fragments[i].key \in {"email", "url", "date", "password"}}
  IN IF at = {} THEN "" ELSE fragments[CHOOSE i \in at : \A j \in at : j <= i].key
ElementProps(type, p) ==
  SelectSeq(ui[type].decs[p], LAMBDA d : d.key = "element")[1].props.props

\* C24 as stated: the type of an element node is the key of its type-implying
\* validation fragment, and without such a fragment the translation of its
\* base type, whatever type the static props or the context name.
C24_TypeIgnoresSupplied ==
  Returned =>
    \A e \in Emitted :
      Get(e.node.props, "type") =
        IF TypeImplying(e.type, e.key) THEN Str(LastImplying(Declared(e.type, e.key)))
        ELSE Str(Forward(BaseType(e.type, e.key)))

\* the type of a node, from the list of fragments the store held for its
\* property when the build began
Resolved(e, globalProps, stored) ==
  LET read == IF stored = <<>> THEN <<>> ELSE Tail(stored)
  IN IF LastImplying(read) # "" THEN Str(LastImplying(read))
     ELSE IF "type" \in DOMAIN globalProps THEN globalProps["type"]
     ELSE IF "type" \in StaticProps(e.type, e.key)
     THEN ElementProps(e.type, e.key)["type"]
     ELSE IF stored = <<>> THEN Undef
     ELSE Str(Forward(Get(Head(stored).props, "name").s))

\* C24, amended: the type of an element node is the key of the type-implying
\* validation fragment (email, url, date, password) the build reads for its
\* property after the base-type descriptor, the last one if there are several.
\* Without such a fragment it is the type the context names, else the type the
\* static props of the annotation name, and only when neither names one the
\* translation of the base type (string to text, number and bigint to number,
\* boolean to checkbox, date to date).
C24_TypeResolution ==
  [][Returned' =>
       \A e \in Emitted' :
         Get(e.node.props, "type") =
           Resolved(e, last'.globalProps, validation[e.type][e.key])]_vars

\* a tree built under a context that names a type, with a boolean that has no
\* type-implying fragment and no type of its own: its node has the type of the
\* context and not checkbox
C24_Witness ==
  /\ Returned
  /\ Get(last.globalProps, "type") = Str("hidden")
  /\ \E e \in Emitted :
       /\ BaseType(e.type, e.key) = "Boolean"
       /\ ~TypeImplying(e.type, e.key)
       /\ "type" \notin DOMAIN ElementProps(e.type, e.key)
       /\ Get(e.node.props, "type") = Str("hidden")

PropOnly(type) ==
  {p \in PropertiesOf(type) :
     "prop" \in KeysOf(type, p) /\ KeysOf(type, p) \cap {"element", "child"} = {}}
PropDec(type, p) == SelectSeq(ui[type].decs[p], LAMBDA d : d.key = "prop")[1]
ListPlaced(type) == \E p \in PropertiesOf(type) : "listprop" \in KeysOf(type, p)
ChildFor(node, chain, p) ==
  \E i \in DOMAIN node.children :
    \/ /\ node.children[i].keys = "element"
       /\ Get(node.children[i].props, "name") = Str(p)
    \/ /\ node.children[i].keys = "model"
       /\ Get(node.children[i].props, "childOf") = Str(Chain(chain, p))

\* C26 as stated: a property of the model built whose only placement is a prop
\* placement has no child node, and the child-props map of the tree holds its
\* raw current value under its name.
C26_PropRecordsValue ==
  (Returned /\ ~ListPlaced(last.model.type)) =>
    \A p \in PropOnly(last.model.type) :
      /\ ~ChildFor(last.tree, "", p)
      /\ p \in DOMAIN last.tree.item.metas
      /\ last.tree.item.metas[p] = Get(last.model.vals, p)

\* the prop-placed properties of the node of a type, and of the group nodes
\* below it, have no child node and their metadata in the child-props map
RECURSIVE PropPlaced(_, _, _)
PropPlaced(type, node, chain) ==
  /\ \A p \in PropOnly(type) :
       /\ ~ChildFor(node, chain, p)
       /\ ~ListPlaced(type) =>
            /\ p \in DOMAIN node.item.metas
            /\ node.item.metas[p] = PropDec(type, p).props
            /\ node.item.metas[p].name = Str(p)
  /\ PropOnly(type) = PropertiesOf(type) =>
       ~node.hasChildren /\ node.children = <<>>
  /\ \A i \in Groups(node) :
       LET p == KeyOfChild(type, node.children[i], chain)
       IN PropPlaced(ChildClass(ui, type, p), node.children[i], Chain(chain, p))

\* C26, amended: a prop placement never creates a child node, and records the
\* metadata of the placement, {name, stringify}, under the key of the property
\* in the child-props map of the node of its model (item), where it stays
\* unless a list-prop placement of the same model replaces the map; the value
\* of the property is not read.  A model whose properties are all prop-placed
\* yields a node whose children is undefined.
C26_PropRecordsMetadata ==
  Returned => PropPlaced(last.model.type, last.tree, "")

\* the node of AddressModel, two levels below the root, has street prop-placed
\* and nothing else: no children, and the metadata of street in item although
\* the instance holds a date for street
C26_Witness ==
  /\ Returned
  /\ last.model.type = "ParentModel"
  /\ PropOnly("AddressModel") = {"street"}
  /\ "neighbor" \in DOMAIN last.model.sub
  /\ "address" \in DOMAIN last.model.sub["neighbor"].sub
  /\ Get(last.model.sub["neighbor"].sub["address"].vals, "street").k = "date"
  /\ \E i \in Groups(last.tree) :
       \E j \in Groups(last.tree.children[i]) :
         LET address == last.tree.children[i].children[j]
         IN /\ ~address.hasChildren
            /\ address.item.metas["street"].name = Str("street")

C27_StringEscaped ==
  Returned =>
    \A e \in Emitted :
      Get(e.node.props, "type") # Str("date") =>
        Get(e.node.props, "value") =
          IF e.value.k = "string" THEN escapeHtml(e.value) ELSE e.value

\* C27, amended: the value of an element node whose type is not date is the
\* raw value of its property, identical to it for a string too: the builder
\* escapes nothing, and the characters &, < and > of a string are emitted as
\* they are.
C27_StringRaw ==
  Returned =>
    \A e \in Emitted :
      Get(e.node.props, "type") # Str("date") =>
        /\ Get(e.node.props, "value") = e.value
        /\ (e.value.k = "string" /\ escapeHtml(e.value) # e.value) =>
             Get(e.node.props, "value") # escapeHtml(e.value)

\* an email whose value holds a < has that value, not the escaped one
C27_Witness ==
  /\ Returned
  /\ \E e \in Emitted :
       /\ Get(e.node.props, "type") = Str("email")
       /\ e.value = Str("a<b")
       /\ escapeHtml(e.value) = Str("a&lt;b")
       /\ Get(e.node.props, "value") = Str("a<b")

\* C28: when the entry of a flavour in the cache is a constructor, get of the
\* flavour returns an instance of it and leaves that instance in the cache
\* under the flavour, so that the next get finds the instance.
C28_BootsAndCaches ==
  [][ ( /\ got'.op = "get"
        /\ got'.flavour \in DOMAIN cache
        /\ cache[got'.flavour] < -1 ) =>
        /\ got'.err = "none"
        /\ got'.engine > 0
        /\ cache'[got'.flavour] = got'.engine ]_vars

\* the types the child placements of a type name, the types reached from a
\* type along child placements, and whether a type reaches itself
Edges(type) == {ChildClass(ui, type, p) : p \in ChildPlaced(type)} \cap Types
Within(types) == types \cup UNION {Edges(t) : t \in types}
Reached(type) == Within(Within(Edges(type)))
Cyclic == \E type \in Types : type \in Reached(type)

\* the nesting depth of a type whose child placements reach no cycle
RECURSIVE Nesting(_)
Nesting(type) ==
  IF Edges(type) = {} THEN 1
  ELSE 1 + (CHOOSE n \in {Nesting(t) : t \in Edges(type)} :
              \A t \in Edges(type) : Nesting(t) <= n)

\* the most frames of toFieldDefinition a build had on the stack, and the
\* depth of the group nodes of a tree
MaxFrames(trace) ==
  CHOOSE n \in {Frames(SubSeq(trace, 1, i)) : i \in 0..Len(trace)} :
    \A i \in 0..Len(trace) : Frames(SubSeq(trace, 1, i)) <= n
RECURSIVE TreeDepth(_)
TreeDepth(node) ==
  IF Groups(node) = {} THEN 1
  ELSE 1 + (CHOOSE n \in {TreeDepth(node.children[i]) : i \in Groups(node)} :
              \A i \in Groups(node) : TreeDepth(node.children[i]) <= n)

\* C29: a build on types whose child placements form no cycle ends without
\* exhausting the stack and never has more calls of toFieldDefinition on the
\* stack than there are types; a build that returns has recursed as deep as
\* its tree nests models, which without a cycle is the nesting depth of the
\* type of the model, whether the nested values are instances or undefined;
\* the stack is exhausted only by types whose child placements form a cycle.
C29_Terminates ==
  Built =>
    /\ last.err = "RangeError" => Cyclic
    /\ ~Cyclic => MaxFrames(last.trace) <= Cardinality(Types)
    /\ Returned =>
         /\ MaxFrames(last.trace) = TreeDepth(last.tree)
         /\ ~Cyclic => MaxFrames(last.trace) = Nesting(last.model.type)

\* a ParentModel whose neighbor is undefined was built three calls deep, on
\* placeholders for NeighborModel and AddressModel
C29_Witness ==
  /\ Returned
  /\ ~Cyclic
  /\ last.model.type = "ParentModel"
  /\ last.model.sub = <<>>
  /\ Nesting("ParentModel") = 3
  /\ MaxFrames(last.trace) = 3
  /\ TreeDepth(last.tree) = 3

-----------------------------------------------------------------------------
(* C30: the element of a property is placed before its modifiers are met *)

ModifierKeys == {UIKeys.HIDDEN, UIKeys.ORDER, UIKeys.PAGE, UIKeys.UILAYOUTPROP}

\* the hidden, order, page and layout fragments of a property
Modifiers(type, p) ==
  SelectSeq(ui[type].decs[p], LAMBDA d : d.key \in ModifierKeys)

\* the properties with an element placement, and no other, and a modifier
Modified(type) ==
  {p \in PropertiesOf(type) :
     /\ uiTypeOf(ui, type, p) = "none"
     /\ uiElementOf(ui, type, p)
     /\ Modifiers(type, p) # <<>>}

\* the props of a node hold what the modifier says: a hidden, order or page
\* modifier under its key, a layout modifier as the row and col entries the
\* node has no entry of its own for
Merged(props, own, dec) ==
  IF dec.key = UIKeys.UILAYOUTPROP
  THEN \A k \in DOMAIN dec.props.props :
         /\ k \in DOMAIN props
         /\ k \notin DOMAIN own => props[k] = dec.props.props[k]
  ELSE dec.key \in DOMAIN props /\ props[dec.key] = dec.props.val

\* C30: for every property that has an element placement and hidden, order,
\* page or layout modifiers, in whatever order its fragments are stored, the
\* sort puts the element fragment first, so that the node is among the children
\* before a modifier is met; and in every tree build returns, the node of such
\* a property, at the root or in a nested submodel, holds every one of the
\* modifiers of the property in its props.
C30_ModifiersMerged ==
  /\ \A type \in Types : \A p \in Modified(type) :
       Head(SortDecs(uiDecorationOf(ui, type, p))).key = UIKeys.ELEMENT
  /\ Returned =>
       \A e \in Emitted :
         e.key \in Modified(e.type) =>
           \A i \in DOMAIN Modifiers(e.type, e.key) :
             Merged(e.node.props,
                    Assign(ElementProps(e.type, e.key), last.globalProps),
                    Modifiers(e.type, e.key)[i])

\* the layout, page, hidden and order fragments of name of ParentModel were all
\* attached before its element fragment, and the node of name holds the four
C30_Witness ==
  /\ Returned
  /\ last.model.type = "ParentModel"
  /\ Len(ui["ParentModel"].decs["name"]) = 5
  /\ ui["ParentModel"].decs["name"][5].key = UIKeys.ELEMENT
  /\ DecKeys(Modifiers("ParentModel", "name")) = ModifierKeys
  /\ \E e \in Emitted :
       /\ e.type = "ParentModel" /\ e.key = "name"
       /\ Get(e.node.props, UIKeys.HIDDEN) = Arr(<<"create">>)
       /\ Get(e.node.props, UIKeys.ORDER) = Num(-1)
       /\ Get(e.node.props, UIKeys.PAGE) = Num(2)
       /\ Get(e.node.props, "row") = Num(3)
       /\ Get(e.node.props, "col") = Num(2)

\* the engines whose construction registered them, in the order of registration
Registered == {e \in DOMAIN engines : engines[e].returned}

\* C12: the rendering of a model is delegated to the engine registered under
\* the flavour its class declares; for a class that declares none it is
\* delegated to the current engine, which is the engine of the most recent
\* registration that succeeded.
C12_RenderDelegates ==
  [][ got'.op = "render" =>
        /\ (got'.flavour # "" /\ got'.flavour \in DOMAIN cache) =>
              /\ got'.err = "none"
              /\ got'.engine = cache[got'.flavour]
              /\ engines[got'.engine].flavour = got'.flavour
        /\ (got'.flavour = "" /\ Registered # {}) =>
              /\ got'.err = "none"
              /\ got'.engine = current
              /\ got'.engine \in Registered
              /\ \A e \in Registered : e <= got'.engine ]_vars

\* a model without a flavour was rendered by the second of two registered
\* engines, after a construction that was refused
C12_Witness ==
  /\ got.op = "render"
  /\ got.flavour = ""
  /\ got.err = "none"
  /\ Cardinality(Registered) = 2
  /\ \E e \in DOMAIN engines : ~engines[e].returned /\ e > got.engine

====
